---- MODULE Spec2Model ----
(***************************************************************************)
(* Model of the analysis engine of api-performance-analyzer                *)
(* (package internal/analysis): AnalyzeCode and the rules it runs, over    *)
(* source texts that are scanned and parsed the way go/scanner and         *)
(* go/parser do it for the subset of Go the texts are written in.          *)
(***************************************************************************)
EXTENDS Integers, Sequences, FiniteSets, TLC

VARIABLES
    now,        \* the wall clock read by time.Now()
    pc,         \* "idle": no call pending; "called": AnalyzeCode has its arguments
    callCode,   \* argument code of the pending / last call
    callType,   \* argument codeType of the pending / last call
    callPath,   \* argument filePath of the pending / last call
    analysis,   \* the CodeAnalysis returned by the last call (NoAnalysis before)
    prev,       \* the call before the last one: its arguments and its result
    trace,      \* the functions AnalyzeCode invoked in its last run, in order
    config,     \* the Config of a run of the command line analyzer
    walked,     \* the directory entries filepath.WalkDir has handed over so far
    results,    \* the []FileAnalysis of analyzeCodebase
    exit,       \* the exit status of the command and what it wrote to stderr
    emitted     \* the GitHub annotations or SARIF results the command wrote

\* the variables of a run of the command line analyzer
cli == <<config, walked, results, exit, emitted>>

vars == <<now, pc, callCode, callType, callPath, analysis, prev, trace,
          config, walked, results, exit, emitted>>

(***************************************************************************)
(* strings                                                                  *)
(***************************************************************************)

\* strings.Contains(s, substr)
Contains(s, substr) ==
    \E i \in 1 .. (Len(s) - Len(substr) + 1) :
        SubSeq(s, i, i + Len(substr) - 1) = substr


(***************************************************************************)
(* Go slices: nil and empty are different values                           *)
(***************************************************************************)

NilSlice == [isNil |-> TRUE, elems |-> << >>]          \* var s []T
EmptySlice == [isNil |-> FALSE, elems |-> << >>]       \* []T{}
\* append(s, x)
AppendOne(s, x) == [isNil |-> FALSE, elems |-> Append(s.elems, x)]
\* append(s, t...): appending nothing to nil leaves nil
AppendAll(s, t) ==
    IF t.elems = << >> THEN s
    ELSE [isNil |-> FALSE, elems |-> s.elems \o t.elems]

(***************************************************************************)
(* go/scanner: the text becomes a sequence of tokens [t, v, line], with    *)
(* the automatic semicolons of the Go specification                        *)
(***************************************************************************)

Letters ==
    {"a", "b", "c", "d", "e", "f", "g", "h", "i", "j", "k", "l", "m", "n", "o",
     "p", "q", "r", "s", "t", "u", "v", "w", "x", "y", "z", "A", "B", "C", "D",
     "E", "F", "G", "H", "I", "J", "K", "L", "M", "N", "O", "P", "Q", "R", "S",
     "T", "U", "V", "W", "X", "Y", "Z", "_"}
Digits == {"0", "1", "2", "3", "4", "5", "6", "7", "8", "9"}
Keywords ==
    {"break", "case", "chan", "const", "continue", "default", "defer", "else",
     "fallthrough", "for", "func", "go", "goto", "if", "import", "interface",
     "map", "package", "range", "return", "select", "struct", "switch", "type",
     "var"}
TwoCharOps == {":=", "++", "--", "==", "!=", "<=", ">=", "&&", "||"}

Ch(s, i) == SubSeq(s, i, i)

\* the first index from i on whose character is in chars (not in chars);
\* Len(s) + 1 when there is none
FirstIn(s, i, chars) ==
    CHOOSE j \in i .. Len(s) + 1 :
        /\ j = Len(s) + 1 \/ Ch(s, j) \in chars
        /\ \A k \in i .. j - 1 : Ch(s, k) \notin chars
FirstNotIn(s, i, chars) ==
    CHOOSE j \in i .. Len(s) + 1 :
        /\ j = Len(s) + 1 \/ Ch(s, j) \notin chars
        /\ \A k \in i .. j - 1 : Ch(s, k) \in chars

\* the index after the identifier (or number) that starts at i
WordEnd(s, i) == FirstNotIn(s, i, Letters \cup Digits)

\* the index of the quote closing the string literal whose text starts at i;
\* 0 when the literal is not terminated on its line
RECURSIVE StringEnd(_, _)
StringEnd(s, i) ==
    LET j == FirstIn(s, i, {"\"", "\\", "\n"}) IN
    IF j > Len(s) \/ Ch(s, j) = "\n" THEN 0
    ELSE IF Ch(s, j) = "\"" THEN j
    ELSE StringEnd(s, j + 2)

Token(t, v, line) == [t |-> t, v |-> v, line |-> line]

\* a newline or the end of the text after such a token is a semicolon
NeedsSemi(toks) ==
    /\ toks # << >>
    /\ LET last == toks[Len(toks)]
       IN \/ last.t \in {"IDENT", "INT", "STRING"}
          \/ last.t = "KEYWORD" /\ last.v \in {"break", "continue", "fallthrough", "return"}
          \/ last.t = "OP" /\ last.v \in {")", "]", "}", "++", "--"}

WithSemi(toks, line) ==
    IF NeedsSemi(toks) THEN Append(toks, Token("OP", ";", line)) ELSE toks

\* the tokens of the line s[i .. e]
RECURSIVE ScanLine(_, _, _, _)
ScanLine(s, i, e, line) ==
    LET j == FirstNotIn(s, i, {" ", "\t", "\r"}) IN
    IF j > e THEN << >>
    ELSE LET c == Ch(s, j) IN
      IF c \in Letters THEN
        LET w == SubSeq(s, j, WordEnd(s, j) - 1)
        IN <<Token(IF w \in Keywords THEN "KEYWORD" ELSE "IDENT", w, line)>>
           \o ScanLine(s, j + Len(w), e, line)
      ELSE IF c \in Digits THEN
        LET w == SubSeq(s, j, WordEnd(s, j) - 1)
        IN <<Token("INT", w, line)>> \o ScanLine(s, j + Len(w), e, line)
      ELSE IF c = "\"" THEN
        LET q == StringEnd(s, j + 1)
        IN IF q = 0
           THEN <<Token("ILLEGAL", "\"", line)>>
           ELSE <<Token("STRING", SubSeq(s, j, q), line)>> \o ScanLine(s, q + 1, e, line)
      ELSE IF c = "/" /\ j < e /\ Ch(s, j + 1) = "/" THEN << >>
      ELSE IF j < e /\ SubSeq(s, j, j + 1) \in TwoCharOps THEN
        <<Token("OP", SubSeq(s, j, j + 1), line)>> \o ScanLine(s, j + 2, e, line)
      ELSE <<Token("OP", c, line)>> \o ScanLine(s, j + 1, e, line)

\* the tokens of the lines of s from index i (the start of line number line) on
RECURSIVE Scan(_, _, _)
Scan(s, i, line) ==
    IF i > Len(s) THEN << >>
    ELSE LET e == FirstIn(s, i, {"\n"})
         IN WithSemi(ScanLine(s, i, e - 1, line), line) \o Scan(s, e + 1, line + 1)

Tokens(s) == Scan(s, 1, 1)

(***************************************************************************)
(* go/parser and go/ast: a syntax tree of nodes [kind, name, line, kids],  *)
(* kids in the order ast.Walk visits them, or a syntax error.  The grammar *)
(* is the part of Go the analyzed texts use: package clause, imports,      *)
(* const and var declarations, functions, blocks, for / range / if /       *)
(* switch / type switch / return / defer statements, assignments, calls,   *)
(* selectors, operators.                                                   *)
(***************************************************************************)

Node(kind, name, line, kids) == [kind |-> kind, name |-> name, line |-> line, kids |-> kids]

EOFToken(ts) == Token("EOF", "", IF ts = << >> THEN 1 ELSE ts[Len(ts)].line)
Tok(ts, p) == IF p <= Len(ts) THEN ts[p] ELSE EOFToken(ts)
At(ts, p, v) == Tok(ts, p).t \in {"KEYWORD", "OP"} /\ Tok(ts, p).v = v
AtAny(ts, p, vs) == Tok(ts, p).t \in {"KEYWORD", "OP"} /\ Tok(ts, p).v \in vs

Ok(node, p) == [ok |-> TRUE, node |-> node, p |-> p]
OkList(nodes, p) == [ok |-> TRUE, nodes |-> nodes, p |-> p]
Fail(ts, p, msg) == [ok |-> FALSE, line |-> Tok(ts, p).line, msg |-> msg]

BinaryOps == {"+", "-", "*", "/", "<", ">", "==", "!=", "<=", ">=", "&&", "||"}
UnaryOps == {"&", "!", "-", "*"}

\* The functions of the parser call one another through Parse, which runs
\* the function it is given the name of; x is the third argument of that
\* function, if it has one.
RECURSIVE Parse(_, _, _, _)


ParseOperand(ts, p) ==
    LET t == Tok(ts, p) IN
    IF t.t = "IDENT" THEN Ok(Node("Ident", t.v, t.line, << >>), p + 1)
    ELSE IF t.t \in {"INT", "STRING"} THEN Ok(Node("BasicLit", t.v, t.line, << >>), p + 1)
    ELSE IF At(ts, p, "(") THEN
        LET e == Parse("Expr", ts, p + 1, << >>) IN
        IF ~e.ok THEN e
        ELSE IF At(ts, e.p, ")") THEN Ok(Node("ParenExpr", "", t.line, <<e.node>>), e.p + 1)
        ELSE Fail(ts, e.p, "expected ')'")
    ELSE Fail(ts, p, "expected operand")

\* selectors and calls applied to the operand x
ParseSuffix(ts, p, x) ==
    IF At(ts, p, ".") /\ At(ts, p + 1, "(") /\ At(ts, p + 2, "type") /\ At(ts, p + 3, ")")
    THEN Ok(Node("TypeAssertExpr", "", x.line, <<x>>), p + 4)
    ELSE IF At(ts, p, ".") THEN
        LET t == Tok(ts, p + 1) IN
        IF t.t = "IDENT"
        THEN Parse("Suffix", ts, p + 2,
                 Node("SelectorExpr", t.v, x.line, <<x, Node("Ident", t.v, t.line, << >>)>>))
        ELSE Fail(ts, p + 1, "expected selector")
    ELSE IF At(ts, p, "(") THEN
        LET a == Parse("Args", ts, p + 1, << >>) IN
        IF ~a.ok THEN a
        ELSE Parse("Suffix", ts, a.p, Node("CallExpr", "", x.line, <<x>> \o a.nodes))
    ELSE Ok(x, p)

ParseArgs(ts, p, acc) ==
    IF At(ts, p, ")") THEN OkList(acc, p + 1)
    ELSE LET e == Parse("Expr", ts, p, << >>) IN
         IF ~e.ok THEN e
         ELSE IF At(ts, e.p, ",") THEN Parse("Args", ts, e.p + 1, Append(acc, e.node))
         ELSE IF At(ts, e.p, ")") THEN OkList(Append(acc, e.node), e.p + 1)
         ELSE Fail(ts, e.p, "expected ')'")

ParseUnary(ts, p) ==
    IF Tok(ts, p).t = "OP" /\ Tok(ts, p).v \in UnaryOps THEN
        LET u == Parse("Unary", ts, p + 1, << >>) IN
        IF ~u.ok THEN u
        ELSE Ok(Node(IF Tok(ts, p).v = "*" THEN "StarExpr" ELSE "UnaryExpr",
                     Tok(ts, p).v, Tok(ts, p).line, <<u.node>>), u.p)
    ELSE LET o == Parse("Operand", ts, p, << >>) IN
         IF ~o.ok THEN o ELSE Parse("Suffix", ts, o.p, o.node)

ParseBinaryRest(ts, p, x) ==
    IF Tok(ts, p).t = "OP" /\ Tok(ts, p).v \in BinaryOps THEN
        LET r == Parse("Unary", ts, p + 1, << >>) IN
        IF ~r.ok THEN r
        ELSE Parse("BinaryRest", ts, r.p,
                 Node("BinaryExpr", Tok(ts, p).v, x.line, <<x, r.node>>))
    ELSE Ok(x, p)

ParseExpr(ts, p) ==
    LET u == Parse("Unary", ts, p, << >>) IN
    IF ~u.ok THEN u ELSE Parse("BinaryRest", ts, u.p, u.node)

ParseExprList(ts, p, acc) ==
    LET e == Parse("Expr", ts, p, << >>) IN
    IF ~e.ok THEN e
    ELSE IF At(ts, e.p, ",") THEN Parse("ExprList", ts, e.p + 1, Append(acc, e.node))
    ELSE OkList(Append(acc, e.node), e.p)

\* parseSimpleStmt; in a for header (inFor) the right side may be a range clause
ParseSimpleStmt(ts, p, inFor) ==
    LET l == Parse("ExprList", ts, p, << >>) IN
    IF ~l.ok THEN l
    ELSE IF AtAny(ts, l.p, {":=", "="}) THEN
        IF inFor /\ At(ts, l.p + 1, "range") THEN
            LET x == Parse("Expr", ts, l.p + 2, << >>) IN
            IF ~x.ok THEN x
            ELSE IF Len(l.nodes) > 2 THEN Fail(ts, l.p, "expected at most 2 expressions")
            ELSE Ok(Node("RangeClause", Tok(ts, l.p).v, l.nodes[1].line,
                         Append(l.nodes, x.node)), x.p)
        ELSE
            LET r == Parse("ExprList", ts, l.p + 1, << >>) IN
            IF ~r.ok THEN r
            ELSE Ok(Node("AssignStmt", Tok(ts, l.p).v, l.nodes[1].line, l.nodes \o r.nodes), r.p)
    ELSE IF Len(l.nodes) > 1 THEN Fail(ts, l.p, "expected 1 expression")
    ELSE IF AtAny(ts, l.p, {"++", "--"}) THEN
        Ok(Node("IncDecStmt", Tok(ts, l.p).v, l.nodes[1].line, l.nodes), l.p + 1)
    ELSE Ok(Node("ExprStmt", "", l.nodes[1].line, l.nodes), l.p)

\* the statements up to the closing brace of their block or the next case
\* of their switch (not consumed)
ParseStmtList(ts, p, acc) ==
    IF AtAny(ts, p, {"}", "case", "default"}) THEN OkList(acc, p)
    ELSE IF Tok(ts, p).t = "EOF" THEN Fail(ts, p, "expected '}'")
    ELSE IF At(ts, p, ";")
    THEN Parse("StmtList", ts, p + 1,
             Append(acc, Node("EmptyStmt", "", Tok(ts, p).line, << >>)))
    ELSE LET s == Parse("Stmt", ts, p, << >>) IN
         IF ~s.ok THEN s
         ELSE IF At(ts, s.p, ";") THEN Parse("StmtList", ts, s.p + 1, Append(acc, s.node))
         ELSE IF At(ts, s.p, "}") THEN OkList(Append(acc, s.node), s.p)
         ELSE Fail(ts, s.p, "expected ';'")

ParseBlock(ts, p) ==
    IF ~At(ts, p, "{") THEN Fail(ts, p, "expected '{'")
    ELSE LET l == Parse("StmtList", ts, p + 1, << >>) IN
         IF ~l.ok THEN l
         ELSE Ok(Node("BlockStmt", "", Tok(ts, p).line, l.nodes), l.p + 1)

\* the condition, the post statement and the body of a three-clause for
\* statement, p being after the first semicolon
ParseForRest(ts, p, init, line) ==
    LET cond == IF At(ts, p, ";") THEN OkList(<< >>, p)
                ELSE LET e == Parse("Expr", ts, p, << >>) IN
                     IF ~e.ok THEN e ELSE OkList(<<e.node>>, e.p)
    IN
    IF ~cond.ok THEN cond
    ELSE IF ~At(ts, cond.p, ";") THEN Fail(ts, cond.p, "expected ';'")
    ELSE LET post == IF At(ts, cond.p + 1, "{") THEN OkList(<< >>, cond.p + 1)
                     ELSE LET q == Parse("SimpleStmt", ts, cond.p + 1, FALSE) IN
                          IF ~q.ok THEN q ELSE OkList(<<q.node>>, q.p)
         IN
         IF ~post.ok THEN post
         ELSE LET body == Parse("Block", ts, post.p, << >>) IN
              IF ~body.ok THEN body
              ELSE Ok(Node("ForStmt", "", line,
                           init \o cond.nodes \o post.nodes \o <<body.node>>), body.p)

\* parseForStmt: *ast.ForStmt (Init, Cond, Post, Body) or *ast.RangeStmt
\* (Key, Value, X, Body)
ParseFor(ts, p) ==
    LET line == Tok(ts, p).line IN
    IF At(ts, p + 1, "{") THEN
        LET body == Parse("Block", ts, p + 1, << >>) IN
        IF ~body.ok THEN body ELSE Ok(Node("ForStmt", "", line, <<body.node>>), body.p)
    ELSE IF At(ts, p + 1, "range") THEN
        LET x == Parse("Expr", ts, p + 2, << >>) IN
        IF ~x.ok THEN x
        ELSE LET body == Parse("Block", ts, x.p, << >>) IN
             IF ~body.ok THEN body
             ELSE Ok(Node("RangeStmt", "", line, <<x.node, body.node>>), body.p)
    ELSE IF At(ts, p + 1, ";") THEN Parse("ForRest", ts, p + 2, <<<< >>, line>>)
    ELSE LET s1 == Parse("SimpleStmt", ts, p + 1, TRUE) IN
         IF ~s1.ok THEN s1
         ELSE IF s1.node.kind = "RangeClause" THEN
             LET body == Parse("Block", ts, s1.p, << >>) IN
             IF ~body.ok THEN body
             ELSE Ok(Node("RangeStmt", s1.node.name, line,
                          Append(s1.node.kids, body.node)), body.p)
         ELSE IF At(ts, s1.p, ";") THEN Parse("ForRest", ts, s1.p + 1, <<<<s1.node>>, line>>)
         ELSE IF s1.node.kind = "ExprStmt" THEN
             LET body == Parse("Block", ts, s1.p, << >>) IN
             IF ~body.ok THEN body
             ELSE Ok(Node("ForStmt", "", line, Append(s1.node.kids, body.node)), body.p)
         ELSE Fail(ts, s1.p, "expected for loop condition")

\* parseIfStmt: *ast.IfStmt (Init, Cond, Body, Else)
ParseIf(ts, p) ==
    LET line == Tok(ts, p).line
        s1 == Parse("SimpleStmt", ts, p + 1, FALSE)
    IN
    IF ~s1.ok THEN s1
    ELSE LET head ==
               IF At(ts, s1.p, ";") THEN
                   LET c == Parse("Expr", ts, s1.p + 1, << >>) IN
                   IF ~c.ok THEN c ELSE OkList(<<s1.node, c.node>>, c.p)
               ELSE IF s1.node.kind = "ExprStmt" THEN OkList(s1.node.kids, s1.p)
               ELSE Fail(ts, s1.p, "expected boolean expression")
         IN
         IF ~head.ok THEN head
         ELSE LET body == Parse("Block", ts, head.p, << >>) IN
              IF ~body.ok THEN body
              ELSE IF ~At(ts, body.p, "else")
              THEN Ok(Node("IfStmt", "", line, Append(head.nodes, body.node)), body.p)
              ELSE LET els == IF At(ts, body.p + 1, "if") THEN Parse("If", ts, body.p + 1, << >>)
                              ELSE Parse("Block", ts, body.p + 1, << >>)
                   IN IF ~els.ok THEN els
                      ELSE Ok(Node("IfStmt", "", line,
                                   head.nodes \o <<body.node, els.node>>), els.p)

\* parseCaseClause for each case up to the closing brace of the switch
\* (consumed): *ast.CaseClause (List, Body)
ParseCases(ts, p, acc) ==
    IF At(ts, p, "}") THEN OkList(acc, p + 1)
    ELSE IF ~AtAny(ts, p, {"case", "default"}) THEN Fail(ts, p, "expected '}'")
    ELSE LET l == IF At(ts, p, "default") THEN OkList(<< >>, p + 1)
                  ELSE Parse("ExprList", ts, p + 1, << >>)
         IN
         IF ~l.ok THEN l
         ELSE IF ~At(ts, l.p, ":") THEN Fail(ts, l.p, "expected ':'")
         ELSE LET body == Parse("StmtList", ts, l.p + 1, << >>) IN
              IF ~body.ok THEN body
              ELSE Parse("Cases", ts, body.p,
                       Append(acc, Node("CaseClause", "", Tok(ts, p).line,
                                        l.nodes \o body.nodes)))

\* isTypeSwitchGuard: x.(type) or v := x.(type)
IsTypeSwitchGuard(s) ==
    \/ s.kind = "ExprStmt" /\ s.kids[1].kind = "TypeAssertExpr"
    \/ /\ s.kind = "AssignStmt" /\ s.name = ":=" /\ Len(s.kids) = 2
       /\ s.kids[2].kind = "TypeAssertExpr"

\* parseSwitchStmt: *ast.SwitchStmt (Tag, Body) or *ast.TypeSwitchStmt
\* (Assign, Body)
ParseSwitch(ts, p) ==
    LET line == Tok(ts, p).line IN
    IF At(ts, p + 1, "{") THEN
        LET cases == Parse("Cases", ts, p + 2, << >>) IN
        IF ~cases.ok THEN cases
        ELSE Ok(Node("SwitchStmt", "", line,
                     <<Node("BlockStmt", "", Tok(ts, p + 1).line, cases.nodes)>>), cases.p)
    ELSE LET s2 == Parse("SimpleStmt", ts, p + 1, FALSE) IN
         IF ~s2.ok THEN s2
         ELSE IF ~At(ts, s2.p, "{") THEN Fail(ts, s2.p, "expected '{'")
         ELSE IF ~IsTypeSwitchGuard(s2.node) /\ s2.node.kind # "ExprStmt"
         THEN Fail(ts, s2.p, "expected switch expression")
         ELSE LET cases == Parse("Cases", ts, s2.p + 1, << >>) IN
              IF ~cases.ok THEN cases
              ELSE IF IsTypeSwitchGuard(s2.node)
              THEN Ok(Node("TypeSwitchStmt", "", line,
                           <<s2.node, Node("BlockStmt", "", Tok(ts, s2.p).line, cases.nodes)>>),
                      cases.p)
              ELSE Ok(Node("SwitchStmt", "", line,
                           <<s2.node.kids[1],
                             Node("BlockStmt", "", Tok(ts, s2.p).line, cases.nodes)>>),
                      cases.p)

ParseStmt(ts, p) ==
    IF At(ts, p, "for") THEN Parse("For", ts, p, << >>)
    ELSE IF At(ts, p, "if") THEN Parse("If", ts, p, << >>)
    ELSE IF At(ts, p, "switch") THEN Parse("Switch", ts, p, << >>)
    ELSE IF At(ts, p, "{") THEN Parse("Block", ts, p, << >>)
    ELSE IF At(ts, p, "return") THEN
        IF AtAny(ts, p + 1, {";", "}"})
        THEN Ok(Node("ReturnStmt", "", Tok(ts, p).line, << >>), p + 1)
        ELSE LET l == Parse("ExprList", ts, p + 1, << >>) IN
             IF ~l.ok THEN l ELSE Ok(Node("ReturnStmt", "", Tok(ts, p).line, l.nodes), l.p)
    ELSE IF At(ts, p, "defer") THEN
        LET e == Parse("Expr", ts, p + 1, << >>) IN
        IF ~e.ok THEN e
        ELSE IF e.node.kind # "CallExpr" THEN Fail(ts, e.p, "expression in defer must be function call")
        ELSE Ok(Node("DeferStmt", "", Tok(ts, p).line, <<e.node>>), e.p)
    ELSE IF Tok(ts, p).t = "KEYWORD" THEN Fail(ts, p, "expected statement")
    ELSE Parse("SimpleStmt", ts, p, FALSE)

\* a type: T, pkg.T, *T, []T
ParseType(ts, p) ==
    LET t == Tok(ts, p) IN
    IF At(ts, p, "*") THEN
        LET e == Parse("Type", ts, p + 1, << >>) IN
        IF ~e.ok THEN e ELSE Ok(Node("StarExpr", "*", t.line, <<e.node>>), e.p)
    ELSE IF At(ts, p, "[") /\ At(ts, p + 1, "]") THEN
        LET e == Parse("Type", ts, p + 2, << >>) IN
        IF ~e.ok THEN e ELSE Ok(Node("ArrayType", "", t.line, <<e.node>>), e.p)
    ELSE IF t.t = "IDENT" THEN
        IF At(ts, p + 1, ".") /\ Tok(ts, p + 2).t = "IDENT"
        THEN Ok(Node("SelectorExpr", Tok(ts, p + 2).v, t.line,
                     <<Node("Ident", t.v, t.line, << >>),
                       Node("Ident", Tok(ts, p + 2).v, t.line, << >>)>>), p + 3)
        ELSE Ok(Node("Ident", t.v, t.line, << >>), p + 1)
    ELSE Fail(ts, p, "expected type")

\* the parameters "name Type, ..." up to the closing parenthesis
ParseParams(ts, p, acc) ==
    IF At(ts, p, ")") THEN OkList(acc, p + 1)
    ELSE IF Tok(ts, p).t # "IDENT" THEN Fail(ts, p, "expected ')'")
    ELSE LET ty == Parse("Type", ts, p + 1, << >>) IN
         IF ~ty.ok THEN ty
         ELSE LET field == Node("Field", "", Tok(ts, p).line,
                                <<Node("Ident", Tok(ts, p).v, Tok(ts, p).line, << >>), ty.node>>)
              IN IF At(ts, ty.p, ",") THEN Parse("Params", ts, ty.p + 1, Append(acc, field))
                 ELSE IF At(ts, ty.p, ")") THEN OkList(Append(acc, field), ty.p + 1)
                 ELSE Fail(ts, ty.p, "expected ')'")

\* parseFuncDecl: *ast.FuncDecl (Name, Type, Body)
ParseFuncDecl(ts, p) ==
    LET line == Tok(ts, p).line IN
    IF Tok(ts, p + 1).t # "IDENT" THEN Fail(ts, p + 1, "expected 'IDENT'")
    ELSE IF ~At(ts, p + 2, "(") THEN Fail(ts, p + 2, "expected '('")
    ELSE LET name == Node("Ident", Tok(ts, p + 1).v, line, << >>)
             ps == Parse("Params", ts, p + 3, << >>)
         IN
         IF ~ps.ok THEN ps
         ELSE LET res == IF AtAny(ts, ps.p, {"{", ";"}) \/ Tok(ts, ps.p).t = "EOF"
                         THEN OkList(<< >>, ps.p)
                         ELSE LET ty == Parse("Type", ts, ps.p, << >>) IN
                              IF ~ty.ok THEN ty
                              ELSE OkList(<<Node("FieldList", "", ty.node.line, <<ty.node>>)>>, ty.p)
              IN
              IF ~res.ok THEN res
              ELSE LET ftype == Node("FuncType", "", line,
                                     <<Node("FieldList", "", line, ps.nodes)>> \o res.nodes)
                   IN IF ~At(ts, res.p, "{")
                      THEN Ok(Node("FuncDecl", name.name, line, <<name, ftype>>), res.p)
                      ELSE LET body == Parse("Block", ts, res.p, << >>) IN
                           IF ~body.ok THEN body
                           ELSE Ok(Node("FuncDecl", name.name, line,
                                        <<name, ftype, body.node>>), body.p)

\* parseGenDecl: import "path" / const name = value / var name = value
ParseGenDecl(ts, p) ==
    LET line == Tok(ts, p).line
        kw == Tok(ts, p).v
    IN
    IF kw = "import" THEN
        IF Tok(ts, p + 1).t = "STRING"
        THEN Ok(Node("GenDecl", kw, line,
                     <<Node("ImportSpec", "", line,
                            <<Node("BasicLit", Tok(ts, p + 1).v, line, << >>)>>)>>), p + 2)
        ELSE Fail(ts, p + 1, "expected 'STRING'")
    ELSE IF Tok(ts, p + 1).t # "IDENT" THEN Fail(ts, p + 1, "expected 'IDENT'")
    ELSE LET name == Node("Ident", Tok(ts, p + 1).v, line, << >>)
             ty == IF At(ts, p + 2, "=") \/ At(ts, p + 2, ";") THEN OkList(<< >>, p + 2)
                   ELSE LET e == Parse("Type", ts, p + 2, << >>) IN
                        IF ~e.ok THEN e ELSE OkList(<<e.node>>, e.p)
         IN
         IF ~ty.ok THEN ty
         ELSE IF ~At(ts, ty.p, "=")
         THEN IF kw = "const" \/ ty.nodes = << >>
              THEN Fail(ts, ty.p, "expected '='")
              ELSE Ok(Node("GenDecl", kw, line,
                           <<Node("ValueSpec", "", line, <<name>> \o ty.nodes)>>), ty.p)
         ELSE LET v == Parse("Expr", ts, ty.p + 1, << >>) IN
              IF ~v.ok THEN v
              ELSE Ok(Node("GenDecl", kw, line,
                           <<Node("ValueSpec", "", line,
                                  <<name>> \o ty.nodes \o <<v.node>>)>>), v.p)

\* the top-level declarations up to the end of the file; imports come first
ParseDecls(ts, p, acc) ==
    IF Tok(ts, p).t = "EOF" THEN OkList(acc, p)
    ELSE LET d == IF At(ts, p, "func") THEN Parse("FuncDecl", ts, p, << >>)
                  ELSE IF At(ts, p, "import") THEN
                      IF \E i \in 1 .. Len(acc) : acc[i].name # "import"
                      THEN Fail(ts, p, "imports must appear before other declarations")
                      ELSE Parse("GenDecl", ts, p, << >>)
                  ELSE IF AtAny(ts, p, {"const", "var"}) THEN Parse("GenDecl", ts, p, << >>)
                  ELSE Fail(ts, p, "expected declaration")
         IN
         IF ~d.ok THEN d
         ELSE IF At(ts, d.p, ";") THEN Parse("Decls", ts, d.p + 1, Append(acc, d.node))
         ELSE Fail(ts, d.p, "expected ';'")

Parse(rule, ts, p, x) ==
    CASE rule = "Operand" -> ParseOperand(ts, p)
      [] rule = "Suffix" -> ParseSuffix(ts, p, x)
      [] rule = "Args" -> ParseArgs(ts, p, x)
      [] rule = "Unary" -> ParseUnary(ts, p)
      [] rule = "BinaryRest" -> ParseBinaryRest(ts, p, x)
      [] rule = "Expr" -> ParseExpr(ts, p)
      [] rule = "ExprList" -> ParseExprList(ts, p, x)
      [] rule = "SimpleStmt" -> ParseSimpleStmt(ts, p, x)
      [] rule = "StmtList" -> ParseStmtList(ts, p, x)
      [] rule = "Block" -> ParseBlock(ts, p)
      [] rule = "ForRest" -> ParseForRest(ts, p, x[1], x[2])
      [] rule = "For" -> ParseFor(ts, p)
      [] rule = "If" -> ParseIf(ts, p)
      [] rule = "Cases" -> ParseCases(ts, p, x)
      [] rule = "Switch" -> ParseSwitch(ts, p)
      [] rule = "Stmt" -> ParseStmt(ts, p)
      [] rule = "Type" -> ParseType(ts, p)
      [] rule = "Params" -> ParseParams(ts, p, x)
      [] rule = "FuncDecl" -> ParseFuncDecl(ts, p)
      [] rule = "GenDecl" -> ParseGenDecl(ts, p)
      [] rule = "Decls" -> ParseDecls(ts, p, x)

\* parser.ParseFile(fset, filePath, code, parser.ParseComments): the *ast.File
\* (ok) or the first syntax error (its line and message)
ParseFile(src) ==
    LET ts == Tokens(src) IN
    IF ~At(ts, 1, "package") THEN Fail(ts, 1, "expected 'package'")
    ELSE IF Tok(ts, 2).t # "IDENT" THEN Fail(ts, 2, "expected 'IDENT'")
    ELSE IF ~At(ts, 3, ";") THEN Fail(ts, 3, "expected ';'")
    ELSE LET ds == Parse("Decls", ts, 4, << >>) IN
         IF ~ds.ok THEN ds
         ELSE Ok(Node("File", Tok(ts, 2).v, 1,
                      <<Node("Ident", Tok(ts, 2).v, Tok(ts, 2).line, << >>)>> \o ds.nodes),
                 Len(ts) + 1)

(***************************************************************************)
(* go/ast traversal                                                         *)
(***************************************************************************)

\* the nodes ast.Inspect(n, f) hands to f, in order, when f always returns true
RECURSIVE Walk(_), WalkAll(_, _)
Walk(n) == <<n>> \o WalkAll(n.kids, 1)
WalkAll(kids, i) == IF i > Len(kids) THEN << >> ELSE Walk(kids[i]) \o WalkAll(kids, i + 1)


(***************************************************************************)
(* the rules                                                                *)
(***************************************************************************)

SecurityIssue(type, description, severity, suggestion) ==
    [Type |-> type, Description |-> description, Severity |-> severity,
     LineNumber |-> 0, Suggestion |-> suggestion]

\* CodeExample, a constant text per rule, is left out of the record
PerformanceHint(issue, impact, solution, severity, line) ==
    [Issue |-> issue, Impact |-> impact, Solution |-> solution,
     LineNumber |-> line, Severity |-> severity]

BestPractice(category, current, recommended, reasoning) ==
    [Category |-> category, Current |-> current, Recommended |-> recommended,
     Reasoning |-> reasoning]

\* Confidence in hundredths (0.85 is 85); AutoFixCode, a constant text per
\* rule, is left out of the record
AIRecommendation(type, confidence, recommendation) ==
    [Type |-> type, Confidence |-> confidence, Recommendation |-> recommendation]

When(cond, slice, x) == IF cond THEN AppendOne(slice, x) ELSE slice

\* analysis before the first call has returned
NoAnalysis == [none |-> TRUE]

\* the condition of the CORS check: neither spelling of the word in the
\* text; missingCORSNoNegation tests the lower-case spelling without its "!"
missingCORSNoNegation(code) == Contains(code, "cors") /\ ~Contains(code, "CORS")

missingCORS(code) == ~Contains(code, "cors") /\ ~Contains(code, "CORS")

\* the condition of the SQL injection check: a data manipulation keyword
\* and neither "Prepare" nor a "?"; rawSQLNoPlaceholderCheck leaves the
\* placeholder out
rawSQLNoPlaceholderCheck(code) ==
    /\ \/ Contains(code, "SELECT")
       \/ Contains(code, "INSERT")
       \/ Contains(code, "UPDATE")
       \/ Contains(code, "DELETE")
    /\ ~Contains(code, "Prepare")

rawSQL(code) ==
    /\ \/ Contains(code, "SELECT")
       \/ Contains(code, "INSERT")
       \/ Contains(code, "UPDATE")
       \/ Contains(code, "DELETE")
    /\ ~Contains(code, "Prepare") /\ ~Contains(code, "?")

detectSecurityIssues(node, code) ==
    LET i0 == NilSlice
        i1 == When(missingCORS(code), i0,
                   SecurityIssue("missing_cors",
                       "No CORS middleware detected - this can cause browser security issues",
                       "medium", "Add CORS middleware: router.Use(cors.Default())"))
        i2 == When(Contains(code, "BindJSON") /\ ~Contains(code, "StatusBadRequest"), i1,
                   SecurityIssue("insufficient_error_handling",
                       "JSON binding without proper error responses",
                       "medium", "Return proper HTTP error codes for invalid JSON"))
        i3 == When(\/ Contains(code, "password")
                   \/ Contains(code, "secret")
                   \/ Contains(code, "token"), i2,
                   SecurityIssue("potential_hardcoded_secrets",
                       "Potential hardcoded secrets detected",
                       "high", "Use environment variables for sensitive data"))
        i4 == When(rawSQL(code), i3,
                   SecurityIssue("sql_injection_risk",
                       "Raw SQL queries detected - potential injection risk",
                       "high", "Use parameterized queries or ORM with proper escaping"))
    IN i4

dbMethods ==
    <<"Find", "First", "Last", "Take", "Where", "Select", "Order", "Limit", "Offset",
      "Create", "Save", "Update", "UpdateColumn", "UpdateColumns", "Updates",
      "Delete", "Unscoped", "Raw", "Exec", "Scan", "Rows", "Row",
      "Count", "Group", "Having", "Joins", "Preload", "Related", "Association">>

\* isDBCall returning false inside the loop over the catalogue: only the
\* first name is compared
isDBCallFirstOnly(callExpr) ==
    /\ callExpr.kids[1].kind = "SelectorExpr"
    /\ callExpr.kids[1].name = dbMethods[1]

\* callExpr.Fun is a selector whose name is in the catalogue
isDBCall(callExpr) ==
    /\ callExpr.kids[1].kind = "SelectorExpr"
    /\ \E i \in 1 .. Len(dbMethods) : callExpr.kids[1].name = dbMethods[i]

\* the nodes the inner ast.Inspect of a loop hands to its function, which
\* returns false (the children of that node are skipped) at a catalogue call
RECURSIVE InspectLoop(_), InspectLoopAll(_, _)
InspectLoop(n) ==
    IF n.kind = "CallExpr" /\ isDBCall(n) THEN <<n>>
    ELSE <<n>> \o InspectLoopAll(n.kids, 1)
InspectLoopAll(kids, i) ==
    IF i > Len(kids) THEN << >> ELSE InspectLoop(kids[i]) \o InspectLoopAll(kids, i + 1)

\* hasDBCall with the search over the body of the loop only
hasDBCallInBody(loop) ==
    \E i \in 1 .. Len(InspectLoop(loop.kids[Len(loop.kids)])) :
        /\ InspectLoop(loop.kids[Len(loop.kids)])[i].kind = "CallExpr"
        /\ isDBCall(InspectLoop(loop.kids[Len(loop.kids)])[i])

hasDBCall(loop) ==
    \E i \in 1 .. Len(InspectLoop(loop)) :
        InspectLoop(loop)[i].kind = "CallExpr" /\ isDBCall(InspectLoop(loop)[i])

IsForWithDBCall(n) == n.kind = "ForStmt" /\ hasDBCall(n)
IsRangeWithDBCall(n) == n.kind = "RangeStmt" /\ hasDBCall(n)

\* ForHint without the position of the loop: LineNumber stays 0
ForHintNoLine(n) ==
    PerformanceHint("Potential N+1 Query Pattern",
        "CRITICAL: Could execute hundreds of database queries instead of one",
        "Use JOIN queries or eager loading to fetch related data in one query",
        "critical", 0)

ForHint(n) ==
    PerformanceHint("Potential N+1 Query Pattern",
        "CRITICAL: Could execute hundreds of database queries instead of one",
        "Use JOIN queries or eager loading to fetch related data in one query",
        "critical", n.line)
RangeHint(n) ==
    PerformanceHint("N+1 Query in Range Loop",
        "CRITICAL: Database call inside range loop creates N+1 queries",
        "Extract database calls outside the loop or use batch queries",
        "critical", n.line)

\* one hint for each loop of loops, in the order of the traversal
ForHints(loops) == [i \in 1 .. Len(loops) |-> ForHint(loops[i])]
RangeHints(loops) == [i \in 1 .. Len(loops) |-> RangeHint(loops[i])]

\* detectN1QueryPatterns with the range loops searched before the counted
\* loops
detectN1QueryPatternsRangeFirst(node, code) ==
    LET h0 == NilSlice
        h1 == AppendAll(h0, [isNil |-> TRUE,
                             elems |-> RangeHints(SelectSeq(Walk(node), IsRangeWithDBCall))])
        h2 == AppendAll(h1, [isNil |-> TRUE,
                             elems |-> ForHints(SelectSeq(Walk(node), IsForWithDBCall))])
        h3 == When(Contains(code, "for") /\ Contains(code, ".Related("), h2,
                   PerformanceHint("GORM N+1 Query with Related()",
                       "CRITICAL: Each Related() call executes a separate query",
                       "Use Preload() to fetch related data efficiently", "critical", 0))
    IN h3

\* detectN1QueryPatterns with the rule on the text skipped when a loop rule
\* has reported already
detectN1QueryPatternsDeduplicated(node, code) ==
    LET h0 == NilSlice
        h1 == AppendAll(h0, [isNil |-> TRUE,
                             elems |-> ForHints(SelectSeq(Walk(node), IsForWithDBCall))])
        h2 == AppendAll(h1, [isNil |-> TRUE,
                             elems |-> RangeHints(SelectSeq(Walk(node), IsRangeWithDBCall))])
        h3 == When(/\ Len(h2.elems) = 0
                   /\ Contains(code, "for") /\ Contains(code, ".Related("), h2,
                   PerformanceHint("GORM N+1 Query with Related()",
                       "CRITICAL: Each Related() call executes a separate query",
                       "Use Preload() to fetch related data efficiently", "critical", 0))
    IN h3

detectN1QueryPatterns(node, code) ==
    LET h0 == NilSlice
        \* Pattern 1: Loop with database calls
        h1 == AppendAll(h0, [isNil |-> TRUE,
                             elems |-> ForHints(SelectSeq(Walk(node), IsForWithDBCall))])
        \* Pattern 2: Range loop with database calls
        h2 == AppendAll(h1, [isNil |-> TRUE,
                             elems |-> RangeHints(SelectSeq(Walk(node), IsRangeWithDBCall))])
        \* Pattern 3: GORM Related() calls in loops
        h3 == When(Contains(code, "for") /\ Contains(code, ".Related("), h2,
                   PerformanceHint("GORM N+1 Query with Related()",
                       "CRITICAL: Each Related() call executes a separate query",
                       "Use Preload() to fetch related data efficiently", "critical", 0))
    IN h3

wherePatterns ==
    <<"WHERE name", "WHERE email", "WHERE status", "WHERE created_at", "LIKE '%",
      ".Where(\"name", ".Where(\"email", ".Where(\"status">>

\* the loop over wherePatterns without its break: one hint for every pattern
\* the text contains
RECURSIVE MissingIndexLoopNoBreak(_, _, _)
MissingIndexLoopNoBreak(code, i, hints) ==
    IF i > Len(wherePatterns) THEN hints
    ELSE IF Contains(code, wherePatterns[i])
    THEN MissingIndexLoopNoBreak(code, i + 1,
             AppendOne(hints,
                 PerformanceHint("Potential Missing Database Index",
                     "HIGH: Query will scan entire table without proper index",
                     "Add database index on frequently queried columns", "high", 0)))
    ELSE MissingIndexLoopNoBreak(code, i + 1, hints)

\* the loop over wherePatterns from pattern i on: one hint at the first
\* pattern the text contains, then break
RECURSIVE MissingIndexLoop(_, _, _)
MissingIndexLoop(code, i, hints) ==
    IF i > Len(wherePatterns) THEN hints
    ELSE IF Contains(code, wherePatterns[i])
    THEN AppendOne(hints,
             PerformanceHint("Potential Missing Database Index",
                 "HIGH: Query will scan entire table without proper index",
                 "Add database index on frequently queried columns", "high", 0))
    ELSE MissingIndexLoop(code, i + 1, hints)

\* detectMissingIndexes with hints declared at package level: the hint of
\* the call before is still in it
detectMissingIndexesShared(node, code) ==
    MissingIndexLoop(code, 1,
        IF analysis = NoAnalysis THEN NilSlice
        ELSE [isNil |-> TRUE,
              elems |-> SelectSeq(analysis.PerformanceHints.elems,
                            LAMBDA h : h.Issue = "Potential Missing Database Index")])

detectMissingIndexes(node, code) == MissingIndexLoop(code, 1, NilSlice)

detectLargePayloadIssues(node, code) ==
    When(/\ Contains(code, "c.JSON") \/ Contains(code, "json.Marshal")
         /\ Contains(code, ".Find(&") \/ Contains(code, "SELECT *")
         /\ ~Contains(code, "Limit") /\ ~Contains(code, "LIMIT"),
         NilSlice,
         PerformanceHint("Large Dataset Response Without Pagination",
             "HIGH: Returning large datasets will cause slow responses and high memory usage",
             "Implement pagination for large data responses", "high", 0))

expensiveOperations ==
    <<"calculateReport", "generateStats", "getAggregated", "COUNT(", "SUM(", "AVG(",
      "GROUP BY", "ORDER BY">>

\* the loop over expensiveOperations without its break: one hint for every
\* operation the text contains
RECURSIVE MissingCachingLoopNoBreak(_, _, _)
MissingCachingLoopNoBreak(code, i, hints) ==
    IF i > Len(expensiveOperations) THEN hints
    ELSE IF /\ Contains(code, expensiveOperations[i])
            /\ ~Contains(code, "cache") /\ ~Contains(code, "Cache")
    THEN MissingCachingLoopNoBreak(code, i + 1,
             AppendOne(hints,
                 PerformanceHint("Expensive Operation Without Caching",
                     "MEDIUM: Repeated expensive calculations will slow down your API",
                     "Cache expensive operation results with Redis or in-memory cache",
                     "medium", 0)))
    ELSE MissingCachingLoopNoBreak(code, i + 1, hints)

RECURSIVE MissingCachingLoop(_, _, _)
MissingCachingLoop(code, i, hints) ==
    IF i > Len(expensiveOperations) THEN hints
    ELSE IF /\ Contains(code, expensiveOperations[i])
            /\ ~Contains(code, "cache") /\ ~Contains(code, "Cache")
    THEN AppendOne(hints,
             PerformanceHint("Expensive Operation Without Caching",
                 "MEDIUM: Repeated expensive calculations will slow down your API",
                 "Cache expensive operation results with Redis or in-memory cache",
                 "medium", 0))
    ELSE MissingCachingLoop(code, i + 1, hints)

detectMissingCaching(node, code) == MissingCachingLoop(code, 1, NilSlice)

detectPerformanceIssues(node, code) ==
    LET h0 == NilSlice
        h1 == AppendAll(h0, detectN1QueryPatterns(node, code))
        h2 == AppendAll(h1, detectMissingIndexes(node, code))
        h3 == AppendAll(h2, detectLargePayloadIssues(node, code))
        h4 == AppendAll(h3, detectMissingCaching(node, code))
        h5 == When(Contains(code, "var albums = []") \/ Contains(code, "albums = append("), h4,
                   PerformanceHint("In-memory data storage",
                       "MEDIUM: Data lost on restart, not scalable, memory leaks",
                       "Implement database persistence (PostgreSQL, MongoDB, etc.)",
                       "medium", 0))
        h6 == When(Contains(code, "sql.Open") /\ ~Contains(code, "SetMaxOpenConns"), h5,
                   PerformanceHint("No database connection pooling",
                       "HIGH: Resource exhaustion, poor scalability",
                       "Configure connection pool settings", "high", 0))
    IN h6

suggestBestPractices(node, code) ==
    LET p0 == NilSlice
        p1 == AppendOne(p0,
                  BestPractice("Error Handling", "Basic error handling",
                      "Structured error responses with proper HTTP status codes",
                      "Better client experience, easier debugging, API consistency"))
        p2 == When(~Contains(code, "middleware"), p1,
                   BestPractice("Request Validation", "No input validation middleware",
                       "Add request validation and sanitization",
                       "Prevent invalid data, improve security, reduce debugging time"))
        p3 == When(~Contains(code, "Logger"), p2,
                   BestPractice("Logging", "No structured logging",
                       "Add request/response logging with correlation IDs",
                       "Essential for debugging production issues and monitoring"))
        p4 == When(Contains(code, "Run(\"localhost:8080\")"), p3,
                   BestPractice("Configuration", "Hardcoded port and host",
                       "Use environment variables for configuration",
                       "Enables different environments (dev, staging, prod)"))
    IN p4

\* generateAIRecommendations with the middleware rule for gin code only
generateAIRecommendationsOfType(code, codeType) ==
    LET r0 == NilSlice
        r1 == When(Contains(code, "func get") /\ Contains(code, "func post"), r0,
                   AIRecommendation("architecture", 85,
                       "Consider implementing repository pattern for cleaner data access"))
        r2 == When(codeType = "gin" /\ ~Contains(code, "Recovery()"), r1,
                   AIRecommendation("middleware", 92,
                       "Add essential middleware for production readiness"))
        r3 == When(~Contains(code, "/v1/") /\ ~Contains(code, "/api/v"), r2,
                   AIRecommendation("api_design", 78,
                       "Add API versioning for future compatibility"))
        r4 == When(~Contains(code, "_test.go"), r3,
                   AIRecommendation("testing", 88,
                       "Add unit tests for better code reliability"))
    IN r4

generateAIRecommendations(code, codeType) ==
    LET r0 == NilSlice
        r1 == When(Contains(code, "func get") /\ Contains(code, "func post"), r0,
                   AIRecommendation("architecture", 85,
                       "Consider implementing repository pattern for cleaner data access"))
        r2 == When(~Contains(code, "Recovery()"), r1,
                   AIRecommendation("middleware", 92,
                       "Add essential middleware for production readiness"))
        r3 == When(~Contains(code, "/v1/") /\ ~Contains(code, "/api/v"), r2,
                   AIRecommendation("api_design", 78,
                       "Add API versioning for future compatibility"))
        r4 == When(~Contains(code, "_test.go"), r3,
                   AIRecommendation("testing", 88,
                       "Add unit tests for better code reliability"))
    IN r4

\* the type switch of the callback without the loops
IsControlFlowBranchesOnly(n) == n.kind \in {"IfStmt", "SwitchStmt", "TypeSwitchStmt"}

IsControlFlow(n) ==
    n.kind \in {"IfStmt", "ForStmt", "RangeStmt", "SwitchStmt", "TypeSwitchStmt"}

calculateComplexity(node) == Len(SelectSeq(Walk(node), IsControlFlow))

\* the loop over hints from hint i on
RECURSIVE ScoreLoop(_, _, _)
ScoreLoop(hints, i, score) ==
    IF i > Len(hints) THEN score
    ELSE ScoreLoop(hints, i + 1,
             CASE hints[i].Severity = "critical" -> score - 25
               [] hints[i].Severity = "high" -> score - 15
               [] hints[i].Severity = "medium" -> score - 10
               [] hints[i].Severity = "low" -> score - 5
               [] OTHER -> score)

GradeOf(score) ==
    IF score >= 95 THEN "A+"
    ELSE IF score >= 90 THEN "A"
    ELSE IF score >= 80 THEN "B"
    ELSE IF score >= 70 THEN "C"
    ELSE IF score >= 60 THEN "D"
    ELSE "F"

\* calculatePerformanceScore without the clamp of the score at 0
calculatePerformanceScoreNoClamp(hints) ==
    <<ScoreLoop(hints.elems, 1, 100), GradeOf(ScoreLoop(hints.elems, 1, 100))>>

\* (score, grade)
calculatePerformanceScore(hints) ==
    LET raw == ScoreLoop(hints.elems, 1, 100)
        score == IF raw < 0 THEN 0 ELSE raw
    IN <<score, GradeOf(score)>>

(***************************************************************************)
(* AnalyzeCode                                                              *)
(***************************************************************************)

\* err.Error() of the parser's error for the file named filePath
ErrorText(err, filePath) == filePath \o ":" \o ToString(err.line) \o ": " \o err.msg

\* analysis := CodeAnalysis{...}: the lists empty, the other fields zero
\* CodeAnalysis{...} without the FilePath field: it stays ""
NewAnalysisNoPath(filePath) ==
    [SecurityIssues |-> EmptySlice,
     PerformanceHints |-> EmptySlice,
     BestPractices |-> EmptySlice,
     AIRecommendations |-> EmptySlice,
     AnalysisTime |-> now,
     CodeComplexity |-> 0,
     PerformanceScore |-> 0,
     PerformanceGrade |-> "",
     FilePath |-> ""]

NewAnalysis(filePath) ==
    [SecurityIssues |-> EmptySlice,
     PerformanceHints |-> EmptySlice,
     BestPractices |-> EmptySlice,
     AIRecommendations |-> EmptySlice,
     AnalysisTime |-> now,
     CodeComplexity |-> 0,
     PerformanceScore |-> 0,
     PerformanceGrade |-> "",
     FilePath |-> filePath]

SyntaxError(err, filePath) ==
    SecurityIssue("syntax_error", "Code contains syntax errors", "high",
        "Fix syntax errors before analysis: " \o ErrorText(err, filePath))

ParseTrace == <<"time.Now", "parser.ParseFile">>
RulesTrace ==
    <<"detectSecurityIssues", "detectPerformanceIssues", "suggestBestPractices",
      "generateAIRecommendations", "calculateComplexity", "calculatePerformanceScore">>

\* analysis.PerformanceScore, analysis.PerformanceGrade = score, grade
SetScore(a, scored) ==
    [a EXCEPT !.PerformanceScore = scored[1], !.PerformanceGrade = scored[2]]

\* the score of the security findings and the performance findings together
ScoreAll(a) ==
    SetScore(a, calculatePerformanceScore(AppendAll(a.PerformanceHints, a.SecurityIssues)))

\* the score and the grade of analysis.PerformanceHints
Score(a) == SetScore(a, calculatePerformanceScore(a.PerformanceHints))

\* the assignments of the rules' results to the fields of a, then the score
RunRules(a, node, code, codeType) ==
    [analysis |->
        Score([a EXCEPT
                  !.SecurityIssues = detectSecurityIssues(node, code),
                  !.PerformanceHints = detectPerformanceIssues(node, code),
                  !.BestPractices = suggestBestPractices(node, code),
                  !.AIRecommendations = generateAIRecommendations(code, codeType),
                  !.CodeComplexity = calculateComplexity(node)]),
     trace |-> ParseTrace \o RulesTrace]

\* OnParse without the return of the parse-failure branch: the rules on the
\* text run, their findings after the syntax error
OnParseNoReturn(a, parsed, code, codeType, filePath) ==
    IF ~parsed.ok THEN
        [analysis |->
            Score([a EXCEPT
                      !.SecurityIssues =
                          AppendAll(AppendOne(@, SyntaxError(parsed, filePath)),
                                    detectSecurityIssues(parsed, code)),
                      !.BestPractices = suggestBestPractices(parsed, code),
                      !.AIRecommendations = generateAIRecommendations(code, codeType)]),
         trace |-> ParseTrace \o RulesTrace]
    ELSE RunRules(a, parsed.node, code, codeType)

\* OnParse with a second attempt of the parser after an error
OnParseRetry(a, parsed, code, codeType, filePath) ==
    IF ~parsed.ok THEN
        [analysis |-> [a EXCEPT !.SecurityIssues = AppendOne(@, SyntaxError(parsed, filePath))],
         trace |-> ParseTrace \o <<"parser.ParseFile">>]
    ELSE RunRules(a, parsed.node, code, codeType)

\* what AnalyzeCode does with the result of parser.ParseFile: on an error
\* it appends the syntax error and returns, otherwise the rules run
OnParse(a, parsed, code, codeType, filePath) ==
    IF ~parsed.ok THEN
        [analysis |-> [a EXCEPT !.SecurityIssues = AppendOne(@, SyntaxError(parsed, filePath))],
         trace |-> ParseTrace]
    ELSE RunRules(a, parsed.node, code, codeType)

\* The CodeAnalysis AnalyzeCode(code, codeType, filePath) returns when
\* time.Now() is the clock value now, and the functions it invokes on the way.
AnalyzeCode(code, codeType, filePath) ==
    OnParse(NewAnalysis(filePath), ParseFile(code), code, codeType, filePath)

(***************************************************************************)
(* the texts analyzed                                                       *)
(***************************************************************************)

MaxDepth == 2   \* nesting depth of the statements of the generated texts
MaxTime == 2    \* calls in a run of SpecTwice

SimpleStmts ==
    {"fmt.Println(\"hello\")",
     "db.Find(&posts)",
     "db.Query(\"SELECT * FROM posts WHERE user_id = ?\", id)",
     "q := \"SELECT * FROM users WHERE id = \" + id",
     "db.Model(&o).Related(&o.Items)",
     "router.Use(cors.Default())",
     "stmt, err := db.Prepare(\"DELETE FROM users\")",
     "db.Where(\"name = \" + n).Find(&users)"}

LoopKinds == {"range", "for", "if"}

Wrap(kind, body) ==
    (CASE kind = "range" -> "for _, u := range users {\n"
       [] kind = "for" -> "for i := 0; i < n; i++ {\n"
       [] kind = "if" -> "if ok {\n")
    \o body \o "\n}"

RECURSIVE Stmts(_)
Stmts(d) ==
    IF d = 0 THEN SimpleStmts
    ELSE SimpleStmts \cup {Wrap(k, b) : k \in LoopKinds, b \in Stmts(d - 1)}

Program(body) == "package main\nfunc handler() {\n" \o body \o "\n}"

\* the same text without the closing brace of the function
Truncated(body) == "package main\nfunc handler() {\n" \o body \o "\n"

\* analyzer_test.go, "simple valid Go code"
HelloWorld ==
    "package main\n\nimport \"fmt\"\n\nfunc main() {\n\tfmt.Println(\"Hello, World!\")\n}"

\* analyzer_test.go, "N+1 query pattern in for loop"
RangeQueryTest ==
    "package main\nimport \"database/sql\"\nfunc processUsers(db *sql.DB, users []User) {\n"
    \o "\tfor _, user := range users {\n"
    \o "\t\tdb.Query(\"SELECT * FROM posts WHERE user_id = ?\", user.ID)\n\t}\n}"

\* analyzer_test.go, TestAnalyzeCode_Fields
FieldsTest == "package main\nimport \"fmt\"\nfunc main() { fmt.Println(\"test\") }"

\* the constant of the integration test's main.go (test-coverage.yml)
ApiKeySample == "package main\nconst apiKey = \"sk-1234567890abcdef\"\nfunc main() {\n}"

\* texts for the rules on the text: the word "for" outside any loop next to
\* a Related call, several WHERE and LIKE patterns, several expensive
\* operations without and with a cache
RuleTexts ==
    {Program("fmt.Println(\"for\")\ndb.Model(&o).Related(&o.Items)"),
     Program("q := \"SELECT id FROM users WHERE name LIKE '%a%' OR WHERE email = ?\""),
     Program("q := \"SELECT COUNT(id), SUM(total) FROM orders GROUP BY day ORDER BY day\""),
     Program("q := \"SELECT COUNT(id), SUM(n) FROM users WHERE name LIKE '%a%' OR WHERE "
             \o "email = ? GROUP BY day ORDER BY day\""),
     Program("cacheKey := \"SELECT COUNT(id), SUM(total) FROM orders\""),
     Program("rows := queryCache.Get(\"SELECT COUNT(id) FROM orders GROUP BY day\")")}

\* analyzer_test.go, TestAnalyzeCode_ComplexityCalculation, "simple function"
SimpleFunctionTest == "package main\nfunc simple() {\n\tif true {\n\t\tprintln(\"hello\")\n\t}\n}"

\* analyzer_test.go, "complex function with loops and conditions"
ComplexFunctionTest ==
    "package main\nfunc complex(users []User) {\n\tfor _, user := range users {\n"
    \o "\t\tif user.Active {\n\t\t\tfor _, post := range user.Posts {\n"
    \o "\t\t\t\tif post.Published {\n\t\t\t\t\tprintln(post.Title)\n"
    \o "\t\t\t\t}\n\t\t\t}\n\t\t}\n\t}\n}"

\* texts with the control flow the corpus of statements does not have: a
\* switch with an if and a counted loop in its cases, a type switch in a
\* range loop, an else-if chain
ControlFlowTexts ==
    {SimpleFunctionTest, ComplexFunctionTest,
     Program("switch x {\ncase 1:\nif ok {\ny++\n}\ndefault:\nfor {\n}\n}"),
     Program(Wrap("range", "switch v := x.(type) {\ncase int, string:\nfmt.Println(v)\n}")),
     Program("if a {\n} else if b {\n} else {\n}")}

\* analyzer_test.go, TestAnalyzeCode_AIRecommendations
AIRecommendationsTest ==
    "package main\nimport \"github.com/gin-gonic/gin\"\nfunc main() {\n"
    \o "\trouter := gin.Default()\n\trouter.GET(\"/api/albums\", getAlbums)\n"
    \o "\trouter.POST(\"/api/albums\", postAlbums)\n}\n"
    \o "func getAlbums(c *gin.Context) { }\nfunc postAlbums(c *gin.Context) { }"

\* texts for the recommendation rules: all four fire, the middleware rule
\* does not, none does
RecommendationTexts ==
    {AIRecommendationsTest,
     Program("router.Use(gin.Recovery())"),
     Program("router.Use(gin.Recovery())\nrouter.GET(\"/v1/albums\", h)\n"
             \o "// tests in handler_test.go")}

\* a range loop before a counted loop, each around a call of the catalogue
RangeBeforeFor ==
    Program(Wrap("range", "db.Find(&posts)") \o "\n" \o Wrap("for", "db.First(&post)"))

\* texts for the loop rules: a statement after the call of the catalogue,
\* the call in the header only (ranged expression, init, condition, post),
\* a range loop before a counted loop
LoopTexts ==
    {Program("for _, u := range users {\ndb.Find(&posts)\nfmt.Println(u)\n}"),
     Program("for _, u := range db.Find(&users) {\nfmt.Println(u)\n}"),
     Program("for i := db.Count(&n); i < 3; i++ {\nfmt.Println(i)\n}"),
     Program("for i := 0; i < db.Count(&n); i++ {\nfmt.Println(i)\n}"),
     Program("for i := 0; i < 3; i = db.Count(&n) {\nfmt.Println(i)\n}"),
     RangeBeforeFor}

\* statements on which each of the six rules on the text reports
TextRuleStmts ==
    "fmt.Println(\"for\")\ndb.Model(&o).Related(&o.Items)\n"
    \o "db.Where(\"name = ?\", n).Find(&users)\nc.JSON(200, users)\n"
    \o "q := \"SELECT COUNT(id) FROM users\"\nalbums = append(albums, a)\n"
    \o "db, err := sql.Open(\"postgres\", dsn)"

\* every rule on the text reports and no loop rule does
AllTextRules == Program(TextRuleStmts)

\* every performance rule reports: the six on the text, and a range loop
\* before a counted loop
AllRules ==
    Program(TextRuleStmts \o "\n" \o Wrap("range", "db.Find(&posts)") \o "\n"
            \o Wrap("for", "db.First(&post)"))

\* analyzer_test.go, "invalid Go code"
InvalidCode == "this is not valid Go code"

Sources ==
    {Program(b) : b \in Stmts(MaxDepth)}
    \cup {Truncated(b) : b \in {"q := \"SELECT * FROM users WHERE id = \" + id",
                               "for _, u := range users {\ndb.Find(&posts)\n}"}}
    \cup RuleTexts \cup ControlFlowTexts \cup RecommendationTexts \cup LoopTexts
    \cup {AllTextRules, AllRules}
    \cup {"", InvalidCode, HelloWorld, FieldsTest, RangeQueryTest, ApiKeySample}

\* the texts of the runs that call twice
PairSources ==
    {Program(b) : b \in SimpleStmts \cup {Wrap(k, "db.Find(&posts)") : k \in LoopKinds}}
    \cup {Program("router.Use(cors.Default())\n"
                    \o Wrap("if", Wrap("range", "db.Find(&posts)")))}
    \cup {"", InvalidCode}

CodeTypes == {"go", "gin", "unknown"}
FilePaths == {"main.go", "input.go"}

(***************************************************************************)
(* the state machine                                                        *)
(***************************************************************************)

NoCall == [none |-> TRUE]

\* no run of the command line analyzer
NoRun ==
    /\ config = [none |-> TRUE]
    /\ emitted = << >>
    /\ walked = << >>
    /\ results = NilSlice
    /\ exit = [none |-> TRUE]

Init ==
    /\ now = 0
    /\ pc = "idle"
    /\ callCode = ""
    /\ callType = ""
    /\ callPath = ""
    /\ analysis = NoAnalysis
    /\ prev = NoCall
    /\ trace = << >>
    /\ NoRun

\* A caller invokes AnalyzeCode(c, ct, fp); it keeps what the call before
\* returned.
Call(c, ct, fp) ==
    /\ pc = "idle"
    /\ pc' = "called"
    /\ callCode' = c
    /\ callType' = ct
    /\ callPath' = fp
    /\ prev' = IF analysis = NoAnalysis THEN NoCall
               ELSE [code |-> callCode, codeType |-> callType, filePath |-> callPath,
                     analysis |-> analysis]
    /\ UNCHANGED <<now, analysis, trace, cli>>

\* The call runs to its return; the clock moves on.
Return ==
    /\ pc = "called"
    /\ \E r \in {AnalyzeCode(callCode, callType, callPath)} :
          /\ analysis' = r.analysis
          /\ trace' = r.trace
    /\ now' = now + 1
    /\ pc' = "idle"
    /\ UNCHANGED <<callCode, callType, callPath, prev, cli>>

\* one call of AnalyzeCode in a run, on any text
Once == \E c \in Sources, ct \in CodeTypes, fp \in FilePaths : now = 0 /\ Call(c, ct, fp)

\* up to MaxTime calls in a run
Again == \E c \in PairSources, ct \in CodeTypes, fp \in FilePaths :
            now < MaxTime /\ Call(c, ct, fp)

Next == Once \/ Return

Spec == Init /\ [][Next]_vars

NextTwice == Again \/ Return

SpecTwice == Init /\ [][NextTwice]_vars

(***************************************************************************)
(* properties of the results                                               *)
(***************************************************************************)

\* a call has returned: analysis is the CodeAnalysis of
\* AnalyzeCode(callCode, callType, callPath)
Returned == pc = "idle" /\ now > 0

Parses(code) == ParseFile(code).ok

\* the letter of the band a score lies in
BandLetter(score) ==
    CASE score >= 95 -> "A+"
      [] score >= 90 /\ score < 95 -> "A"
      [] score >= 80 /\ score < 90 -> "B"
      [] score >= 70 /\ score < 80 -> "C"
      [] score >= 60 /\ score < 70 -> "D"
      [] score < 60 -> "F"

Count(slice) == Len(slice.elems)

NoFindings(a) ==
    /\ Count(a.SecurityIssues) = 0
    /\ Count(a.PerformanceHints) = 0
    /\ Count(a.BestPractices) = 0
    /\ Count(a.AIRecommendations) = 0

Severities(slice) == [i \in 1 .. Count(slice) |-> slice.elems[i].Severity]

\* C1: for every text, the text that fails to parse included, the score of
\* the result is in 0..100 and the grade is the letter of the band of the
\* score.
C1_ScoreInRangeGradeOfBand ==
    Returned =>
        /\ analysis.PerformanceScore >= 0
        /\ analysis.PerformanceScore <= 100
        /\ analysis.PerformanceGrade = BandLetter(analysis.PerformanceScore)

\* C2: the empty text gives no finding in any of the four categories,
\* complexity 0, score 100 and grade "A+", and no syntax_error finding.
C2_EmptyTextIsClean ==
    (Returned /\ callCode = "") =>
        /\ NoFindings(analysis)
        /\ analysis.CodeComplexity = 0
        /\ analysis.PerformanceScore = 100
        /\ analysis.PerformanceGrade = "A+"

\* C3: for a text that does not parse the result holds exactly one security
\* finding, of type syntax_error and severity high; the performance, best
\* practice and recommendation lists are empty; no detector, advisory rule,
\* recommendation rule, complexity or score computation has run.
C3_ParseFailureOnlySyntaxError ==
    (Returned /\ ~Parses(callCode)) =>
        /\ Count(analysis.SecurityIssues) = 1
        /\ analysis.SecurityIssues.elems[1].Type = "syntax_error"
        /\ analysis.SecurityIssues.elems[1].Severity = "high"
        /\ Count(analysis.PerformanceHints) = 0
        /\ Count(analysis.BestPractices) = 0
        /\ Count(analysis.AIRecommendations) = 0
        /\ \A i \in 1 .. Len(trace) : trace[i] \in {"time.Now", "parser.ParseFile"}
        /\ analysis.CodeComplexity = 0

\* a text that does not parse although the rules on the text would fire on it
C3_Witness ==
    /\ Returned
    /\ ~Parses(callCode)
    /\ Contains(callCode, "SELECT")
    /\ Count(analysis.SecurityIssues) = 1
    /\ trace = <<"time.Now", "parser.ParseFile">>

\* the elements of a sequence
Elements(seq) == {seq[i] : i \in 1 .. Len(seq)}

\* the nodes of the tree of a text that parses
Nodes(code) == Elements(Walk(ParseFile(code).node))

IsPrintCall(n) ==
    /\ n.kind = "CallExpr"
    /\ n.kids[1].kind = "SelectorExpr"
    /\ n.kids[1].name = "Println"
    /\ n.kids[1].kids[1].name = "fmt"

\* the nodes are those of a file whose only statements are calls of
\* fmt.Println
PrintNodes(nodes) ==
    /\ \E n \in nodes : IsPrintCall(n)
    /\ \A n \in nodes :
          /\ n.kind \in {"File", "Ident", "GenDecl", "ImportSpec", "BasicLit", "FuncDecl",
                         "FuncType", "FieldList", "BlockStmt", "ExprStmt", "CallExpr",
                         "SelectorExpr"}
          /\ n.kind = "CallExpr" => IsPrintCall(n)

PrintOnly(code) == Parses(code) /\ PrintNodes(Nodes(code))

\* the literals the rules on the text look for
FlaggedLiterals ==
    {"cors", "CORS", "BindJSON", "password", "secret", "token",
     "SELECT", "INSERT", "UPDATE", "DELETE", ".Related(",
     "WHERE name", "WHERE email", "WHERE status", "WHERE created_at", "LIKE '%",
     ".Where(\"name", ".Where(\"email", ".Where(\"status",
     "c.JSON", "json.Marshal", "calculateReport", "generateStats", "getAggregated",
     "COUNT(", "SUM(", "AVG(", "GROUP BY", "ORDER BY",
     "var albums = []", "albums = append(", "sql.Open",
     "middleware", "Logger", "Run(\"localhost:8080\")", "func get", "Recovery()",
     "/v1/", "/api/v", "_test.go"}

Plain(code) == \A lit \in FlaggedLiterals : ~Contains(code, lit)

Types(slice) == [i \in 1 .. Count(slice) |-> slice.elems[i].Type]
Categories(slice) == [i \in 1 .. Count(slice) |-> slice.elems[i].Category]

C5_ListsNonNil ==
    Returned =>
        /\ ~analysis.SecurityIssues.isNil
        /\ ~analysis.PerformanceHints.isNil
        /\ ~analysis.BestPractices.isNil
        /\ ~analysis.AIRecommendations.isNil

\* the call before this one had the same arguments
SameArguments ==
    /\ prev # NoCall
    /\ prev.code = callCode
    /\ prev.codeType = callType
    /\ prev.filePath = callPath

Catalogue == {dbMethods[i] : i \in 1 .. Len(dbMethods)}

\* n is a call whose function is a selector named in names
IsCallOf(n, names) ==
    /\ n.kind = "CallExpr"
    /\ n.kids[1].kind = "SelectorExpr"
    /\ n.kids[1].name \in names

\* the text has a range loop with a call named in names inside it
RangeLoopWithCall(code, names) ==
    \E loop \in Nodes(code) :
        /\ loop.kind = "RangeStmt"
        /\ \E n \in Elements(Walk(loop)) : IsCallOf(n, names)

HasHint(a, issue) ==
    \E i \in 1 .. Count(a.PerformanceHints) : a.PerformanceHints.elems[i].Issue = issue

\* C7: for a text that parses and has a range loop with a data-access call
\* of the catalogue inside it, the result has a performance finding named
\* "N+1 Query in Range Loop" of severity critical, and the score is at most
\* 75.
C7_RangeLoopCatalogueCall ==
    (Returned /\ Parses(callCode) /\ RangeLoopWithCall(callCode, Catalogue)) =>
        /\ \E i \in 1 .. Count(analysis.PerformanceHints) :
              /\ analysis.PerformanceHints.elems[i].Issue = "N+1 Query in Range Loop"
              /\ analysis.PerformanceHints.elems[i].Severity = "critical"
        /\ analysis.PerformanceScore <= 75

\* a range loop whose only call is Related: its one finding of the loop
\* rule and the finding of the rule on the text bring the score to 50
C7_Witness ==
    /\ Returned
    /\ callCode = Program(Wrap("range", "db.Model(&o).Related(&o.Items)"))
    /\ RangeLoopWithCall(callCode, Catalogue)
    /\ HasHint(analysis, "N+1 Query in Range Loop")
    /\ analysis.PerformanceScore = 50

\* C8: a database query call made inside a range loop, such as db.Query(...)
\* issued once per element of the ranged collection, is reported as a
\* performance finding named "N+1 Query in Range Loop".
C8_QueryInRangeLoopReported ==
    (Returned /\ Parses(callCode) /\ RangeLoopWithCall(callCode, {"Query"})) =>
        HasHint(analysis, "N+1 Query in Range Loop")

\* the condition of C9 on the text
DMLWithoutPrepareOrPlaceholder(code) ==
    /\ \E kw \in {"SELECT", "INSERT", "UPDATE", "DELETE"} : Contains(code, kw)
    /\ ~Contains(code, "Prepare")
    /\ ~Contains(code, "?")

SQLFindings(a) ==
    {i \in 1 .. Count(a.SecurityIssues) : a.SecurityIssues.elems[i].Type = "sql_injection_risk"}

\* C9: for a text that parses, a security finding of type sql_injection_risk
\* with severity high is emitted exactly when the text contains one of
\* SELECT, INSERT, UPDATE, DELETE and neither "Prepare" nor "?"; a
\* concatenated SQL statement with no "?" and no Prepare call is reported.
C9_SQLInjectionRisk ==
    (Returned /\ Parses(callCode)) =>
        /\ SQLFindings(analysis) # {} <=> DMLWithoutPrepareOrPlaceholder(callCode)
        /\ \A i \in SQLFindings(analysis) : analysis.SecurityIssues.elems[i].Severity = "high"

\* the concatenated statement is reported
C9_Witness ==
    /\ Returned
    /\ callCode = Program("q := \"SELECT * FROM users WHERE id = \" + id")
    /\ SQLFindings(analysis) # {}

\* C10: for parsed files the score and the grade depend only on the
\* performance findings: two analyses whose performance findings have the
\* same severities have the same score and grade, whatever their security
\* findings, best practices, recommendations and complexity.
C10_ScoreOfPerformanceFindingsOnly ==
    (/\ Returned /\ prev # NoCall
     /\ Parses(callCode) /\ Parses(prev.code)
     /\ Severities(analysis.PerformanceHints) = Severities(prev.analysis.PerformanceHints)) =>
        /\ analysis.PerformanceScore = prev.analysis.PerformanceScore
        /\ analysis.PerformanceGrade = prev.analysis.PerformanceGrade

\* two parsed files with a critical performance finding each, and different
\* security findings and complexity
C10_Witness ==
    /\ Returned /\ prev # NoCall
    /\ Parses(callCode) /\ Parses(prev.code)
    /\ Severities(analysis.PerformanceHints) = <<"critical">>
    /\ Severities(prev.analysis.PerformanceHints) = <<"critical">>
    /\ analysis.PerformanceScore = 75
    /\ prev.analysis.PerformanceScore = 75
    /\ analysis.CodeComplexity # prev.analysis.CodeComplexity
    /\ Count(analysis.SecurityIssues) # Count(prev.analysis.SecurityIssues)

\* the results a and b differ in AnalysisTime at most
SameButTime(a, b) == [a EXCEPT !.AnalysisTime = 0] = [b EXCEPT !.AnalysisTime = 0]

\* C14: codeType never causes a failure and never influences the output:
\* two calls with the same code and filePath and different codeType values,
\* recognized or not, return the same findings, complexity, score and grade.
C14_CodeTypeWithoutInfluence ==
    (/\ Returned /\ prev # NoCall
     /\ prev.code = callCode /\ prev.filePath = callPath /\ prev.codeType # callType) =>
        SameButTime(analysis, prev.analysis)

\* a parsed file with recommendations analyzed as "go" and as "unknown"
C14_Witness ==
    /\ Returned /\ prev # NoCall
    /\ prev.code = callCode /\ prev.filePath = callPath
    /\ prev.codeType = "go" /\ callType = "unknown"
    /\ Parses(callCode)
    /\ Count(analysis.AIRecommendations) = 3
    /\ Count(prev.analysis.AIRecommendations) = 3

\* C16: the FilePath of the result is the filePath argument, on the parsed
\* path and on the parse-failure path.
C16_FilePathIsArgument == Returned => analysis.FilePath = callPath

\* a parse failure returned for input.go
C16_Witness ==
    /\ Returned
    /\ ~Parses(callCode)
    /\ callPath = "input.go"
    /\ analysis.FilePath = "input.go"

\* the file declares a constant or variable of a credential's name with a
\* string literal as its value
HardcodesCredential(code) ==
    \E n \in Nodes(code) :
        /\ n.kind = "ValueSpec"
        /\ n.kids[1].name \in {"apiKey", "password", "secret", "token"}
        /\ n.kids[Len(n.kids)].kind = "BasicLit"

\* C17: a parseable file that hardcodes a credential or API key as a string
\* literal, such as a constant apiKey set to "sk-1234567890abcdef", gets a
\* potential_hardcoded_secrets security finding.
C17_HardcodedKeyReported ==
    (Returned /\ Parses(callCode) /\ HardcodesCredential(callCode)) =>
        \E i \in 1 .. Count(analysis.SecurityIssues) :
            analysis.SecurityIssues.elems[i].Type = "potential_hardcoded_secrets"

\* the performance findings of a named issue, in the order of the list
HintsNamed(a, issue) == SelectSeq(a.PerformanceHints.elems, LAMBDA h : h.Issue = issue)

\* the loops of a kind whose subtree has a call of the catalogue, in the
\* order of the traversal
LoopsWithCatalogueCall(code, kind) ==
    SelectSeq(Walk(ParseFile(code).node),
              LAMBDA n : /\ n.kind = kind
                         /\ \E m \in Elements(Walk(n)) : IsCallOf(m, Catalogue))

\* hints are one critical finding per loop of loops, each with the line of
\* its own loop
OneCriticalPerLoop(hints, loops) ==
    /\ Len(hints) = Len(loops)
    /\ \A i \in 1 .. Len(hints) :
          /\ hints[i].Severity = "critical"
          /\ hints[i].LineNumber = loops[i].line

\* C18: for a text that parses, the findings named "Potential N+1 Query
\* Pattern" are as many as the ForStmt loops whose subtree has a call of the
\* catalogue, the findings named "N+1 Query in Range Loop" as many as such
\* range loops; each is critical and has the line of its own loop, so every
\* loop of a nest gets its own finding.
C18_OneFindingPerLoop ==
    (Returned /\ Parses(callCode)) =>
        /\ OneCriticalPerLoop(HintsNamed(analysis, "Potential N+1 Query Pattern"),
                              LoopsWithCatalogueCall(callCode, "ForStmt"))
        /\ OneCriticalPerLoop(HintsNamed(analysis, "N+1 Query in Range Loop"),
                              LoopsWithCatalogueCall(callCode, "RangeStmt"))

\* a for loop on line 3 around a for loop on line 4 around the call: two
\* findings, one for each line
C18_Witness ==
    /\ Returned
    /\ callCode = Program(Wrap("for", Wrap("for", "db.Find(&posts)")))
    /\ Len(LoopsWithCatalogueCall(callCode, "ForStmt")) = 2
    /\ Len(HintsNamed(analysis, "Potential N+1 Query Pattern")) = 2
    /\ HintsNamed(analysis, "Potential N+1 Query Pattern")[1].LineNumber = 3
    /\ HintsNamed(analysis, "Potential N+1 Query Pattern")[2].LineNumber = 4

\* hints are n critical findings
CriticalTimes(hints, n) ==
    /\ Len(hints) = n
    /\ \A i \in 1 .. Len(hints) : hints[i].Severity = "critical"

\* C19: for a text that parses, there is exactly one critical finding named
\* "GORM N+1 Query with Related()" when the text contains both "for" and
\* ".Related(", and none otherwise, whatever the loop rules found: a range
\* loop that calls .Related has the finding of the range rule and this one.
C19_RelatedRuleOnText ==
    (Returned /\ Parses(callCode)) =>
        /\ CriticalTimes(HintsNamed(analysis, "GORM N+1 Query with Related()"),
                         IF Contains(callCode, "for") /\ Contains(callCode, ".Related(")
                         THEN 1 ELSE 0)
        /\ (/\ Contains(callCode, ".Related(")
            /\ Len(LoopsWithCatalogueCall(callCode, "RangeStmt")) > 0) =>
               /\ Len(HintsNamed(analysis, "N+1 Query in Range Loop")) > 0
               /\ Len(HintsNamed(analysis, "GORM N+1 Query with Related()")) = 1

\* a range loop in an if around a Related call: one finding of the range
\* rule and one of the rule on the text
C19_Witness ==
    /\ Returned
    /\ callCode = Program(Wrap("if", Wrap("range", "db.Model(&o).Related(&o.Items)")))
    /\ Len(HintsNamed(analysis, "N+1 Query in Range Loop")) = 1
    /\ Len(HintsNamed(analysis, "GORM N+1 Query with Related()")) = 1

\* hints are n findings of the severity
TimesOfSeverity(hints, n, severity) ==
    /\ Len(hints) = n
    /\ \A i \in 1 .. Len(hints) : hints[i].Severity = severity

\* the patterns of the list that the text contains
Occurring(code, patterns) == {i \in 1 .. Len(patterns) : Contains(code, patterns[i])}

\* C20: for a text that parses, "Potential Missing Database Index" is
\* reported exactly once, as high, when at least one WHERE/LIKE pattern
\* occurs in the text and never otherwise; "Expensive Operation Without
\* Caching" is reported exactly once, as medium, when at least one expensive
\* operation occurs and the text has neither "cache" nor "Cache", and never
\* otherwise.
C20_AtMostOneIndexAndCachingFinding ==
    (Returned /\ Parses(callCode)) =>
        /\ TimesOfSeverity(HintsNamed(analysis, "Potential Missing Database Index"),
                           IF Occurring(callCode, wherePatterns) # {} THEN 1 ELSE 0,
                           "high")
        /\ TimesOfSeverity(HintsNamed(analysis, "Expensive Operation Without Caching"),
                           IF /\ Occurring(callCode, expensiveOperations) # {}
                              /\ ~Contains(callCode, "cache")
                              /\ ~Contains(callCode, "Cache")
                           THEN 1 ELSE 0,
                           "medium")

\* a text with three WHERE/LIKE patterns, four expensive operations and no
\* cache: one finding of each rule
C20_Witness ==
    /\ Returned /\ Parses(callCode)
    /\ Cardinality(Occurring(callCode, wherePatterns)) = 3
    /\ Cardinality(Occurring(callCode, expensiveOperations)) = 4
    /\ Len(HintsNamed(analysis, "Potential Missing Database Index")) = 1
    /\ Len(HintsNamed(analysis, "Expensive Operation Without Caching")) = 1

\* the kinds of node the complexity counts
ControlFlowKinds == {"IfStmt", "ForStmt", "RangeStmt", "SwitchStmt", "TypeSwitchStmt"}

\* the number of nodes of the kinds in the tree n, by recursion over the
\* children
RECURSIVE NumberOfKinds(_, _), NumberOfKindsAll(_, _, _)
NumberOfKinds(n, kinds) ==
    (IF n.kind \in kinds THEN 1 ELSE 0) + NumberOfKindsAll(n.kids, 1, kinds)
NumberOfKindsAll(kids, i, kinds) ==
    IF i > Len(kids) THEN 0
    ELSE NumberOfKinds(kids[i], kinds) + NumberOfKindsAll(kids, i + 1, kinds)

\* C21: for a text that parses, CodeComplexity is the number of if, counted
\* loop, range loop, switch and type switch nodes of the whole tree, each
\* counted once at any depth; it is never negative and 0 when the tree has
\* no such node.
C21_ComplexityCountsControlFlow ==
    (Returned /\ Parses(callCode)) =>
        /\ analysis.CodeComplexity = NumberOfKinds(ParseFile(callCode).node, ControlFlowKinds)
        /\ analysis.CodeComplexity >= 0
        /\ (\A n \in Nodes(callCode) : n.kind \notin ControlFlowKinds) =>
               analysis.CodeComplexity = 0

\* the test's if in a range in an if in a range: complexity 4
C21_Witness ==
    /\ Returned
    /\ callCode = ComplexFunctionTest
    /\ Parses(callCode)
    /\ analysis.CodeComplexity = 4

\* the confidence of each recommendation rule, in hundredths
RuleConfidence ==
    [architecture |-> 85, middleware |-> 92, api_design |-> 78, testing |-> 88]

\* the recommendations of a type, in the order of the list
RecommendationsOfType(a, type) ==
    SelectSeq(a.AIRecommendations.elems, LAMBDA r : r.Type = type)

\* C22: for a text that parses, each of the rules architecture, middleware,
\* api_design and testing gives at most one recommendation, with the
\* confidence of its rule (0.85, 0.92, 0.78, 0.88), which lies in [0, 1]; a
\* text without "Recovery()" has the middleware recommendation, so its list
\* of recommendations is not empty.
C22_OneRecommendationPerRule ==
    (Returned /\ Parses(callCode)) =>
        /\ \A r \in Elements(analysis.AIRecommendations.elems) :
              /\ r.Type \in DOMAIN RuleConfidence
              /\ r.Confidence = RuleConfidence[r.Type]
              /\ r.Confidence >= 0 /\ r.Confidence <= 100
        /\ \A type \in DOMAIN RuleConfidence :
              Len(RecommendationsOfType(analysis, type)) <= 1
        /\ ~Contains(callCode, "Recovery()") =>
              /\ Len(RecommendationsOfType(analysis, "middleware")) = 1
              /\ Count(analysis.AIRecommendations) > 0

\* the text of TestAnalyzeCode_AIRecommendations: one recommendation of
\* each rule, the middleware one among them
C22_Witness ==
    /\ Returned
    /\ callCode = AIRecommendationsTest
    /\ Parses(callCode)
    /\ ~Contains(callCode, "Recovery()")
    /\ Count(analysis.AIRecommendations) = 4
    /\ \A type \in DOMAIN RuleConfidence :
          Len(RecommendationsOfType(analysis, type)) = 1

\* how many times the function f was invoked
Invocations(f) == Cardinality({i \in 1 .. Len(trace) : trace[i] = f})

\* the rule families, the complexity count and the scoring
RuleFamilies ==
    {"detectSecurityIssues", "detectPerformanceIssues", "suggestBestPractices",
     "generateAIRecommendations", "calculateComplexity", "calculatePerformanceScore"}

\* the outcome PARSED: every rule family, the complexity count and the
\* scoring ran, once each, and there is no syntax_error finding
Parsed ==
    /\ \A f \in RuleFamilies : Invocations(f) = 1
    /\ \A i \in Elements(analysis.SecurityIssues.elems) : i.Type # "syntax_error"

\* the outcome PARSE_FAILED: none of them ran and the result is the initial
\* one with the syntax_error finding as its only content
ParseFailed ==
    /\ \A f \in RuleFamilies : Invocations(f) = 0
    /\ Count(analysis.SecurityIssues) = 1
    /\ analysis.SecurityIssues.elems[1].Type = "syntax_error"
    /\ Count(analysis.PerformanceHints) + Count(analysis.BestPractices)
           + Count(analysis.AIRecommendations) = 0

\* C23: each AnalyzeCode call invokes the parser exactly once and ends in
\* exactly one of two outcomes: PARSED, where the security, performance,
\* best-practice and recommendation rules, the complexity count and the
\* scoring all run, or PARSE_FAILED, where only the syntax_error finding is
\* produced; a failed parse is not retried and no rule family runs after it.
C23_ParsedOrParseFailed ==
    Returned =>
        /\ Invocations("parser.ParseFile") = 1
        /\ Parsed # ParseFailed
        /\ Parsed <=> Parses(callCode)
        /\ ParseFailed <=> ~Parses(callCode)

\* a text without its closing brace that the rules on the text would fire
\* on: one invocation of the parser, outcome PARSE_FAILED
C23_Witness ==
    /\ Returned
    /\ callCode = Truncated("for _, u := range users {\ndb.Find(&posts)\n}")
    /\ Invocations("parser.ParseFile") = 1
    /\ ParseFailed /\ ~Parsed

\* the loops of the tree of a text that parses
Loops(code) == {n \in Nodes(code) : n.kind \in {"ForStmt", "RangeStmt"}}

\* the search of the loop has tested nothing after its first match
StopsAtFirstMatch(visited) ==
    \A i \in 1 .. Len(visited) : IsCallOf(visited[i], Catalogue) => i = Len(visited)

\* C24: the search of a loop's subtree stops at the first call of the
\* catalogue: once a node of the subtree has satisfied the predicate, no
\* further node of that subtree is visited or tested.
C24_SearchStopsAtFirstMatch ==
    (Returned /\ Parses(callCode)) =>
        \A loop \in Loops(callCode) : StopsAtFirstMatch(InspectLoop(loop))

\* the tree n has a call of the catalogue
HasCatalogueCall(n) == \E m \in Elements(Walk(n)) : IsCallOf(m, Catalogue)

\* the loop has a call of the catalogue in its header (the children before
\* the body: key, value and ranged expression, or init, condition and post)
\* and none in its body
CallInHeaderOnly(loop) ==
    /\ ~HasCatalogueCall(loop.kids[Len(loop.kids)])
    /\ \E i \in 1 .. Len(loop.kids) - 1 : HasCatalogueCall(loop.kids[i])

\* the result has the critical finding of the loop's rule with its line
HasLoopFinding(a, loop) ==
    \E h \in Elements(a.PerformanceHints.elems) :
        /\ h.Issue = (IF loop.kind = "ForStmt" THEN "Potential N+1 Query Pattern"
                      ELSE "N+1 Query in Range Loop")
        /\ h.Severity = "critical"
        /\ h.LineNumber = loop.line

\* C27: a call of the catalogue that is in the header of a loop only (the
\* ranged expression of a range loop, the init, condition or post statement
\* of a counted loop) and not in its body still makes the N+1 finding of
\* that loop fire: the whole loop statement is searched.
C27_CallInHeaderFires ==
    (Returned /\ Parses(callCode)) =>
        \A loop \in Loops(callCode) : CallInHeaderOnly(loop) => HasLoopFinding(analysis, loop)

\* a range loop over the result of db.Find whose body only prints: one
\* finding of the range rule, on the line of the loop
C27_Witness ==
    /\ Returned
    /\ callCode = Program("for _, u := range db.Find(&users) {\nfmt.Println(u)\n}")
    /\ \E loop \in Loops(callCode) :
          /\ loop.kind = "RangeStmt" /\ CallInHeaderOnly(loop)
          /\ loop.line = 3
          /\ HasLoopFinding(analysis, loop)
    /\ Len(HintsNamed(analysis, "N+1 Query in Range Loop")) = 1

\* the names of the performance findings in the order of their rules
RuleOrder ==
    <<"Potential N+1 Query Pattern", "N+1 Query in Range Loop",
      "GORM N+1 Query with Related()", "Potential Missing Database Index",
      "Large Dataset Response Without Pagination", "Expensive Operation Without Caching",
      "In-memory data storage", "No database connection pooling">>

\* the place of the rule of a finding in that order; 0 for any other name
RuleRank(issue) ==
    IF \E k \in 1 .. Len(RuleOrder) : RuleOrder[k] = issue
    THEN CHOOSE k \in 1 .. Len(RuleOrder) : RuleOrder[k] = issue
    ELSE 0

\* the lines of hints are the lines of loops, in the same order
LinesInOrder(hints, loops) ==
    /\ Len(hints) = Len(loops)
    /\ \A i \in 1 .. Len(hints) : hints[i].LineNumber = loops[i].line

\* C28: the performance findings of a text that parses are ordered by rule
\* and not by position in the source: the findings of the counted loops in
\* the order of the traversal, then those of the range loops, then the
\* Related() finding, missing index, large payload, missing caching,
\* in-memory storage and connection pooling; a range loop before a counted
\* loop in the source is still listed after it.
C28_FindingsOrderedByRule ==
    (Returned /\ Parses(callCode)) =>
        /\ \A i \in 1 .. Count(analysis.PerformanceHints) :
              RuleRank(analysis.PerformanceHints.elems[i].Issue) > 0
        /\ \A i, j \in 1 .. Count(analysis.PerformanceHints) :
              i < j => RuleRank(analysis.PerformanceHints.elems[i].Issue)
                           <= RuleRank(analysis.PerformanceHints.elems[j].Issue)
        /\ LinesInOrder(HintsNamed(analysis, "Potential N+1 Query Pattern"),
                        LoopsWithCatalogueCall(callCode, "ForStmt"))
        /\ LinesInOrder(HintsNamed(analysis, "N+1 Query in Range Loop"),
                        LoopsWithCatalogueCall(callCode, "RangeStmt"))

\* every rule reports once; the range loop of line 10 is listed after the
\* counted loop of line 13
C28_Witness ==
    /\ Returned
    /\ callCode = AllRules
    /\ [i \in 1 .. Count(analysis.PerformanceHints) |->
           analysis.PerformanceHints.elems[i].Issue] = RuleOrder
    /\ analysis.PerformanceHints.elems[1].LineNumber = 13
    /\ analysis.PerformanceHints.elems[2].LineNumber = 10

\* the names of the findings of the rules on the text
TextRules == {RuleOrder[k] : k \in 3 .. Len(RuleOrder)}

\* no counted or range loop of the text has a call of the catalogue
NoLoopWithCatalogueCall(code) == \A loop \in Loops(code) : ~HasCatalogueCall(loop)

\* the result has a finding of a loop rule
HasStructuralFinding(a) ==
    Len(HintsNamed(a, "Potential N+1 Query Pattern"))
        + Len(HintsNamed(a, "N+1 Query in Range Loop")) > 0

\* C29: every rule on the text contributes at most one performance finding
\* per file, so a text that parses and has no counted or range loop with a
\* call of the catalogue has at most 6 performance findings and a score of
\* at least 10; the score of a parsed text is 0 only when a finding of a
\* loop rule is present.
C29_TextRulesOncePerFile ==
    (Returned /\ Parses(callCode)) =>
        /\ \A issue \in TextRules : Len(HintsNamed(analysis, issue)) <= 1
        /\ NoLoopWithCatalogueCall(callCode) =>
              /\ Count(analysis.PerformanceHints) <= 6
              /\ analysis.PerformanceScore >= 10
        /\ analysis.PerformanceScore = 0 => HasStructuralFinding(analysis)

\* a text without a loop on which the six rules on the text report: six
\* findings and the score 10
C29_Witness ==
    /\ Returned
    /\ callCode = AllTextRules
    /\ NoLoopWithCatalogueCall(callCode)
    /\ \A issue \in TextRules : Len(HintsNamed(analysis, issue)) = 1
    /\ Count(analysis.PerformanceHints) = 6
    /\ analysis.PerformanceScore = 10

(***************************************************************************)
(* calculatePerformanceScore on any list of findings                       *)
(***************************************************************************)

MaxHints == 5

\* the severities of the findings handed to calculatePerformanceScore: the
\* four the switch knows and one it does not
SeverityValues == {"critical", "high", "medium", "low", "info"}

InitScore ==
    /\ now = 0
    /\ pc = "hints"
    /\ callCode = ""
    /\ callType = ""
    /\ callPath = ""
    /\ analysis = NewAnalysis("")
    /\ prev = NoCall
    /\ trace = << >>
    /\ NoRun

\* one more finding in the list the score is computed of
AddHint(sev) ==
    /\ pc = "hints"
    /\ Len(analysis.PerformanceHints.elems) < MaxHints
    /\ analysis' = [analysis EXCEPT
                       !.PerformanceHints = AppendOne(@, PerformanceHint("", "", "", sev, 0))]
    /\ UNCHANGED <<now, pc, callCode, callType, callPath, prev, trace, cli>>

\* analysis.PerformanceScore, analysis.PerformanceGrade =
\*     calculatePerformanceScore(analysis.PerformanceHints)
ComputeScore ==
    /\ pc = "hints"
    /\ analysis' = Score(analysis)
    /\ pc' = "scored"
    /\ UNCHANGED <<now, callCode, callType, callPath, prev, trace, cli>>

NextScore == (\E sev \in SeverityValues : AddHint(sev)) \/ ComputeScore

SpecScore == InitScore /\ [][NextScore]_vars

\* the number of findings of the list with severity sev
NumberOf(slice, sev) ==
    Cardinality({i \in 1 .. Len(slice.elems) : slice.elems[i].Severity = sev})

Penalty(slice) ==
    25 * NumberOf(slice, "critical") + 15 * NumberOf(slice, "high")
    + 10 * NumberOf(slice, "medium") + 5 * NumberOf(slice, "low")

\* C11: calculatePerformanceScore returns max(0, 100 - (25c + 15h + 10m + 5l))
\* for c critical, h high, m medium and l low findings; the score is never
\* below 0.
C11_ScoreFormula ==
    pc = "scored" =>
        /\ analysis.PerformanceScore
              = IF 100 - Penalty(analysis.PerformanceHints) > 0
                THEN 100 - Penalty(analysis.PerformanceHints) ELSE 0
        /\ analysis.PerformanceScore >= 0

\* five critical findings: 100 - 125 is clamped to 0
C11_Witness ==
    /\ pc = "scored"
    /\ NumberOf(analysis.PerformanceHints, "critical") = 5
    /\ analysis.PerformanceScore = 0

(***************************************************************************)
(* the command line analyzer (cmd/analyzer)                                *)
(***************************************************************************)

MaxFiles == 2

\* strings.HasSuffix(s, suffix)
HasSuffix(s, suffix) ==
    Len(s) >= Len(suffix) /\ SubSeq(s, Len(s) - Len(suffix) + 1, Len(s)) = suffix

\* the values of the threshold flag: the four levels and one that is none
Thresholds == {"low", "medium", "high", "critical", "none"}

\* the Config of parseFlags, reduced to the fields the exit status depends on
\* the values of -format: annotations, SARIF, and the default for every
\* other value
OutputFormats == {"github", "sarif", "markdown"}

Configs ==
    [OutputFormat : OutputFormats, SeverityThreshold : Thresholds, FailOnIssues : BOOLEAN]

Entry(path, content, err) == [path |-> path, content |-> content, err |-> err]

\* The entries a walked tree is made of. err is the error of the entry:
\* "walk" is handed to the function by WalkDir, "read" is returned by
\* os.ReadFile, "none" is no error.
Entries ==
    {Entry("cors.go", Program("router.Use(cors.Default())"), "none"),
     Entry("main.go", Program("fmt.Println(\"hello\")"), "none"),
     Entry("api/find.go", Program("db.Where(\"name = \" + n).Find(&users)"), "none"),
     Entry("api/users.go", Program(Wrap("range", "db.Find(&posts)")), "none"),
     Entry("broken.go", InvalidCode, "none"),
     Entry("vendor/lib.go", Program(Wrap("range", "db.Find(&posts)")), "none"),
     Entry("api/users_test.go", InvalidCode, "none"),
     Entry("README.md", InvalidCode, "none"),
     Entry("locked.go", "", "read"),
     Entry("private", "", "walk")}

\* severityLevels with a key that is not in the map above all the others
severityLevelsUnknownHighest(s) ==
    CASE s = "low" -> 1
      [] s = "medium" -> 2
      [] s = "high" -> 3
      [] s = "critical" -> 4
      [] OTHER -> 5

\* the map severityLevels; a key that is not in it reads 0
severityLevels(s) ==
    CASE s = "low" -> 1
      [] s = "medium" -> 2
      [] s = "high" -> 3
      [] s = "critical" -> 4
      [] OTHER -> 0

\* shouldFailOnSeverity with > in the place of >=
shouldFailOnSeverityStrict(issueSeverity, threshold) ==
    severityLevels(issueSeverity) > severityLevels(threshold)

shouldFailOnSeverity(issueSeverity, threshold) ==
    severityLevels(issueSeverity) >= severityLevels(threshold)

\* hasHighSeverityIssues without the loop over the security findings
hasHighSeverityIssuesHintsOnly(res, threshold) ==
    \E i \in 1 .. Len(res.elems) :
        \E j \in 1 .. Len(res.elems[i].Analysis.PerformanceHints.elems) :
            shouldFailOnSeverity(res.elems[i].Analysis.PerformanceHints.elems[j].Severity,
                                 threshold)

hasHighSeverityIssues(res, threshold) ==
    \E i \in 1 .. Len(res.elems) :
        \/ \E j \in 1 .. Len(res.elems[i].Analysis.PerformanceHints.elems) :
              shouldFailOnSeverity(res.elems[i].Analysis.PerformanceHints.elems[j].Severity,
                                   threshold)
        \/ \E j \in 1 .. Len(res.elems[i].Analysis.SecurityIssues.elems) :
              shouldFailOnSeverity(res.elems[i].Analysis.SecurityIssues.elems[j].Severity,
                                   threshold)

\* what the function given to WalkDir leaves behind when it returns err
Returns(err, res, returned, analyzed) ==
    [err |-> err, results |-> res, returned |-> returned, analyzed |-> analyzed]

\* the end of the function for a file it has read: r is what AnalyzeCode
\* returned for it
Analyzed(e, res, r) ==
    Returns("none", AppendOne(res, [FilePath |-> e.path, Analysis |-> r.analysis]), r, TRUE)

LastReturned == [analysis |-> analysis, trace |-> trace]

\* the function with a return of the error when the file has a syntax error
WalkFuncStopOnSyntaxError(e, res) ==
    IF e.err = "walk" THEN Returns("walk", res, LastReturned, FALSE)
    ELSE IF ~HasSuffix(e.path, ".go") THEN Returns("none", res, LastReturned, FALSE)
    ELSE IF \/ Contains(e.path, "vendor/")
            \/ Contains(e.path, ".git/")
            \/ Contains(e.path, "_test.go") THEN Returns("none", res, LastReturned, FALSE)
    ELSE IF e.err = "read" THEN Returns("read", res, LastReturned, FALSE)
    ELSE IF ~ParseFile(e.content).ok THEN Returns("read", res, LastReturned, FALSE)
    ELSE Analyzed(e, res, AnalyzeCode(e.content, "go", e.path))

\* the function analyzeCodebase gives to filepath.WalkDir, for the entry e
\* when results is res
WalkFunc(e, res) ==
    IF e.err = "walk" THEN Returns("walk", res, LastReturned, FALSE)
    ELSE IF ~HasSuffix(e.path, ".go") THEN Returns("none", res, LastReturned, FALSE)
    ELSE IF \/ Contains(e.path, "vendor/")
            \/ Contains(e.path, ".git/")
            \/ Contains(e.path, "_test.go") THEN Returns("none", res, LastReturned, FALSE)
    ELSE IF e.err = "read" THEN Returns("read", res, LastReturned, FALSE)
    ELSE Analyzed(e, res, AnalyzeCode(e.content, "go", e.path))

Running == [code |-> -1, stderr |-> ""]

\* strings.ReplaceAll(s, " ", "_") from index i on
RECURSIVE ReplaceSpaces(_, _)
ReplaceSpaces(s, i) ==
    IF i > Len(s) THEN ""
    ELSE (IF Ch(s, i) = " " THEN "_" ELSE Ch(s, i)) \o ReplaceSpaces(s, i + 1)

\* maxInt without the comparison: it returns a
maxIntFirst(a, b) == a

maxInt(a, b) == IF a > b THEN a ELSE b

mapSeverityToSARIF(severity) ==
    CASE severity \in {"critical", "high"} -> "error"
      [] severity = "medium" -> "warning"
      [] OTHER -> "note"

\* the line of an annotation: line 0 is written as line 1
AnnotationLine(lineNumber) == IF lineNumber = 0 THEN 1 ELSE lineNumber

\* "::level file=...,line=...::title: text" as a record
Annotation(level, file, line, title, text) ==
    [level |-> level, file |-> file, line |-> line, title |-> title, text |-> text]

\* outputGitHub: the annotations of one file, its performance findings
\* first
FileAnnotations(result) ==
    [i \in 1 .. Len(result.Analysis.PerformanceHints.elems) |->
        Annotation(IF result.Analysis.PerformanceHints.elems[i].Severity \in {"critical", "high"}
                   THEN "error" ELSE "warning",
                   result.FilePath,
                   AnnotationLine(result.Analysis.PerformanceHints.elems[i].LineNumber),
                   result.Analysis.PerformanceHints.elems[i].Issue,
                   result.Analysis.PerformanceHints.elems[i].Impact)]
    \o [i \in 1 .. Len(result.Analysis.SecurityIssues.elems) |->
        Annotation(IF result.Analysis.SecurityIssues.elems[i].Severity = "high"
                   THEN "error" ELSE "warning",
                   result.FilePath,
                   AnnotationLine(result.Analysis.SecurityIssues.elems[i].LineNumber),
                   result.Analysis.SecurityIssues.elems[i].Type,
                   result.Analysis.SecurityIssues.elems[i].Description)]

\* a SARIF result: ruleId, level, message.text, the uri and the startLine
\* of its one location
SARIFResult(ruleId, level, text, uri, startLine) ==
    [ruleId |-> ruleId, level |-> level, text |-> text, file |-> uri, line |-> startLine]

\* convertToSARIFResults: the results of one file, its performance findings
\* first
FileSARIFResults(result) ==
    [i \in 1 .. Len(result.Analysis.PerformanceHints.elems) |->
        SARIFResult("performance/"
                        \o ReplaceSpaces(result.Analysis.PerformanceHints.elems[i].Issue, 1),
                    mapSeverityToSARIF(result.Analysis.PerformanceHints.elems[i].Severity),
                    result.Analysis.PerformanceHints.elems[i].Impact,
                    result.FilePath,
                    maxInt(result.Analysis.PerformanceHints.elems[i].LineNumber, 1))]
    \o [i \in 1 .. Len(result.Analysis.SecurityIssues.elems) |->
        SARIFResult("security/" \o result.Analysis.SecurityIssues.elems[i].Type,
                    mapSeverityToSARIF(result.Analysis.SecurityIssues.elems[i].Severity),
                    result.Analysis.SecurityIssues.elems[i].Description,
                    result.FilePath,
                    maxInt(result.Analysis.SecurityIssues.elems[i].LineNumber, 1))]

\* outputGitHub and convertToSARIFResults over the files from file i on
RECURSIVE outputGitHub(_, _), convertToSARIFResults(_, _)
outputGitHub(res, i) ==
    IF i > Len(res.elems) THEN << >>
    ELSE FileAnnotations(res.elems[i]) \o outputGitHub(res, i + 1)
convertToSARIFResults(res, i) ==
    IF i > Len(res.elems) THEN << >>
    ELSE FileSARIFResults(res.elems[i]) \o convertToSARIFResults(res, i + 1)

\* the switch on config.OutputFormat of main, as far as annotations and
\* SARIF results go: the JSON and markdown reports have neither
Output(format, res) ==
    CASE format = "github" -> outputGitHub(res, 1)
      [] format = "sarif" -> convertToSARIFResults(res, 1)
      [] OTHER -> << >>

InitCLI ==
    /\ now = 0
    /\ pc = "walk"
    /\ callCode = ""
    /\ callType = ""
    /\ callPath = ""
    /\ analysis = NoAnalysis
    /\ prev = NoCall
    /\ trace = << >>
    /\ config \in Configs
    /\ walked = << >>
    /\ results = NilSlice
    /\ exit = Running
    /\ emitted = << >>

\* WalkDir hands the next entry of the tree to the function; when the
\* function returns an error the walk ends, analyzeCodebase returns the
\* error and main exits with status 1.
Visit(e) ==
    /\ pc = "walk"
    /\ Len(walked) < MaxFiles
    /\ \A i \in 1 .. Len(walked) : walked[i].path # e.path
    /\ walked' = Append(walked, e)
    /\ \E r \in {WalkFunc(e, results)} :
          /\ results' = r.results
          /\ analysis' = r.returned.analysis
          /\ trace' = r.returned.trace
          /\ now' = IF r.analyzed THEN now + 1 ELSE now
          /\ pc' = IF r.err = "none" THEN "walk" ELSE "exited"
          /\ exit' = IF r.err = "none" THEN exit
                     ELSE [code |-> 1, stderr |-> "Analysis failed"]
    /\ UNCHANGED <<callCode, callType, callPath, prev, config, emitted>>

\* the walk is over without an error: main writes the report and decides
\* whether the build fails
Finish ==
    /\ pc = "walk"
    /\ pc' = "exited"
    /\ emitted' = Output(config.OutputFormat, results)
    /\ exit' = IF config.FailOnIssues
                  /\ hasHighSeverityIssues(results, config.SeverityThreshold)
               THEN [code |-> 1, stderr |-> "Performance issues found above threshold"]
               ELSE [code |-> 0, stderr |-> ""]
    /\ UNCHANGED <<now, callCode, callType, callPath, analysis, prev, trace,
                   config, walked, results>>

NextCLI == (\E e \in Entries : Visit(e)) \/ Finish

SpecCLI == InitCLI /\ [][NextCLI]_vars

\* the four severities, from the lowest to the highest
SeverityOrder == <<"low", "medium", "high", "critical">>
Levels == {SeverityOrder[i] : i \in 1 .. Len(SeverityOrder)}
Rank(sev) == CHOOSE i \in 1 .. Len(SeverityOrder) : SeverityOrder[i] = sev

\* the severities of the performance and security findings of all files
FindingSeverities(res) ==
    UNION {Elements(Severities(res.elems[i].Analysis.PerformanceHints))
           \cup Elements(Severities(res.elems[i].Analysis.SecurityIssues)) :
           i \in 1 .. Len(res.elems)}

\* analyzeCodebase returned an error
AnalysisFailed == exit.stderr = "Analysis failed"

\* the run is over and analyzeCodebase returned no error
Reported == pc = "exited" /\ config # [none |-> TRUE] /\ ~AnalysisFailed

\* C12: with low < medium < high < critical and a threshold of that set, the
\* run fails with status 1 because of findings exactly when fail-on-issues
\* is enabled and a performance or security finding of some analyzed file
\* has a severity at or above the threshold; with fail-on-issues disabled no
\* finding makes the run fail.
C12_FailsAtOrAboveThreshold ==
    (Reported /\ config.SeverityThreshold \in Levels) =>
        /\ exit.code = 1 <=>
              /\ config.FailOnIssues
              /\ \E sev \in FindingSeverities(results) \cap Levels :
                    Rank(sev) >= Rank(config.SeverityThreshold)
        /\ ~config.FailOnIssues => exit.code = 0

\* a run that fails at threshold high on a high finding, with no critical one
C12_Witness ==
    /\ Reported
    /\ config.SeverityThreshold = "high"
    /\ config.FailOnIssues
    /\ "high" \in FindingSeverities(results)
    /\ "critical" \notin FindingSeverities(results)
    /\ exit.code = 1

\* the function of analyzeCodebase analyzes the entry
Eligible(e) ==
    /\ HasSuffix(e.path, ".go")
    /\ ~Contains(e.path, "vendor/")
    /\ ~Contains(e.path, ".git/")
    /\ ~Contains(e.path, "_test.go")

HasSyntaxError(a) ==
    \E i \in 1 .. Count(a.SecurityIssues) : a.SecurityIssues.elems[i].Type = "syntax_error"

\* res holds one result for each file of files, in their order, and the
\* result of a file that does not parse carries the syntax error
OneResultPerFile(files, res) ==
    /\ Len(res.elems) = Len(files)
    /\ \A i \in 1 .. Len(files) :
          /\ res.elems[i].FilePath = files[i].path
          /\ res.elems[i].Analysis.FilePath = files[i].path
          /\ ~Parses(files[i].content) => HasSyntaxError(res.elems[i].Analysis)

\* C13: a file that does not parse never aborts the run: AnalyzeCode returns
\* a result with the syntax_error finding, analyzeCodebase goes on with the
\* remaining files and returns one result per eligible file and a nil error;
\* only an error of the walk or of reading a file ends it.
C13_SyntaxErrorNeverAborts ==
    config # [none |-> TRUE] =>
        /\ AnalysisFailed => walked[Len(walked)].err # "none"
        /\ ~AnalysisFailed => OneResultPerFile(SelectSeq(walked, Eligible), results)

\* a file that does not parse, then another file, both with a result
C13_Witness ==
    /\ Reported
    /\ exit.code = 0
    /\ Len(walked) = 2
    /\ walked[1].path = "broken.go"
    /\ walked[2].path = "api/users.go"
    /\ Len(results.elems) = 2
    /\ HasSyntaxError(results.elems[1].Analysis)

\* each result of res is what AnalyzeCode returns for its file now
AsAnalyzedNow(files, res) ==
    \A i \in 1 .. Len(res.elems) :
        res.elems[i].Analysis = AnalyzeCode(files[i].content, "go", files[i].path).analysis

AsAnalyzedNowButTime(files, res) ==
    \A i \in 1 .. Len(res.elems) :
        SameButTime(res.elems[i].Analysis,
                    AnalyzeCode(files[i].content, "go", files[i].path).analysis)

ParsedWithoutCORS(e) ==
    /\ Eligible(e) /\ e.err = "none"
    /\ Parses(e.content)
    /\ ~Contains(e.content, "cors") /\ ~Contains(e.content, "CORS")

\* the result of the file has a missing_cors security finding of severity
\* medium
HasMediumMissingCORS(res, path) ==
    \E r \in Elements(res.elems) :
        /\ r.FilePath = path
        /\ \E i \in Elements(r.Analysis.SecurityIssues.elems) :
              i.Type = "missing_cors" /\ i.Severity = "medium"

\* C25: with fail-on-issues enabled and a threshold of low or medium, every
\* run that analyzes a file whose text parses and contains neither "cors"
\* nor "CORS" fails: such a file has a medium missing_cors security finding.
C25_FailsWithoutCORS ==
    (/\ pc = "exited" /\ config # [none |-> TRUE]
     /\ config.FailOnIssues /\ config.SeverityThreshold \in {"low", "medium"}) =>
        \A e \in Elements(walked) :
            ParsedWithoutCORS(e) =>
                /\ exit.code = 1
                /\ HasMediumMissingCORS(results, e.path)

\* a run at threshold medium over one file that prints hello: it fails on
\* findings, none of them above medium
C25_Witness ==
    /\ Reported
    /\ config.FailOnIssues /\ config.SeverityThreshold = "medium"
    /\ Len(walked) = 1 /\ walked[1].path = "main.go"
    /\ ParsedWithoutCORS(walked[1])
    /\ FindingSeverities(results) = {"medium"}
    /\ exit = [code |-> 1, stderr |-> "Performance issues found above threshold"]

(***************************************************************************)
(* hasHighSeverityIssues on the results of one file with any findings: the *)
(* findings are built one by one, then main decides the exit status        *)
(***************************************************************************)

MaxFindings == 2

InitGate ==
    /\ now = 0
    /\ pc = "walk"
    /\ callCode = ""
    /\ callType = ""
    /\ callPath = ""
    /\ analysis = NoAnalysis
    /\ prev = NoCall
    /\ trace = << >>
    /\ config \in Configs
    /\ walked = << >>
    /\ results = AppendOne(NilSlice, [FilePath |-> "main.go", Analysis |-> NewAnalysis("main.go")])
    /\ exit = Running
    /\ emitted = << >>

\* one more performance finding (hint) or security finding of the severity
\* in the result of the file
AddFinding(hint, sev) ==
    /\ pc = "walk"
    /\ Count(results.elems[1].Analysis.PerformanceHints)
           + Count(results.elems[1].Analysis.SecurityIssues) < MaxFindings
    /\ results' =
           [results EXCEPT !.elems[1].Analysis =
               IF hint
               THEN [@ EXCEPT !.PerformanceHints = AppendOne(@, PerformanceHint("", "", "", sev, 0))]
               ELSE [@ EXCEPT !.SecurityIssues = AppendOne(@, SecurityIssue("", "", sev, ""))]]
    /\ UNCHANGED <<now, pc, callCode, callType, callPath, analysis, prev, trace,
                   config, walked, exit, emitted>>

NextGate == (\E hint \in BOOLEAN, sev \in SeverityValues : AddFinding(hint, sev)) \/ Finish

SpecGate == InitGate /\ [][NextGate]_vars

\* the number of performance and security findings of all files
TotalFindings(res) ==
    Cardinality({<<i, j>> \in (1 .. Len(res.elems)) \X (1 .. MaxFindings) :
                    j <= Count(res.elems[i].Analysis.PerformanceHints)})
    + Cardinality({<<i, j>> \in (1 .. Len(res.elems)) \X (1 .. MaxFindings) :
                    j <= Count(res.elems[i].Analysis.SecurityIssues)})

\* C26: a threshold outside low, medium, high, critical is ranked below
\* every severity: shouldFailOnSeverity is true for every finding, so with
\* fail-on-issues enabled every run with a performance or security finding
\* fails; and a finding whose severity is outside the set never reaches a
\* threshold of the set.
C26_UnknownThresholdUnknownSeverity ==
    Reported =>
        /\ config.SeverityThreshold \notin Levels =>
              /\ \A sev \in FindingSeverities(results) :
                    shouldFailOnSeverity(sev, config.SeverityThreshold)
              /\ exit.code = 1 <=> (config.FailOnIssues /\ TotalFindings(results) > 0)
        /\ config.SeverityThreshold \in Levels =>
              /\ \A sev \in FindingSeverities(results) \ Levels :
                    ~shouldFailOnSeverity(sev, config.SeverityThreshold)
              /\ FindingSeverities(results) \cap Levels = {} => exit.code = 0

\* a run that fails at a threshold outside the set on one finding whose
\* severity is outside the set too
C26_Witness ==
    /\ Reported
    /\ config.FailOnIssues /\ config.SeverityThreshold = "none"
    /\ TotalFindings(results) = 1
    /\ FindingSeverities(results) = {"info"}
    /\ exit.code = 1

\* the performance and security findings of the files from file i on, in
\* the order of the report, each with the path of its file
RECURSIVE ReportedFindings(_, _)
ReportedFindings(res, i) ==
    IF i > Len(res.elems) THEN << >>
    ELSE [j \in 1 .. Count(res.elems[i].Analysis.PerformanceHints) |->
             [file |-> res.elems[i].FilePath,
              line |-> res.elems[i].Analysis.PerformanceHints.elems[j].LineNumber]]
         \o [j \in 1 .. Count(res.elems[i].Analysis.SecurityIssues) |->
             [file |-> res.elems[i].FilePath,
              line |-> res.elems[i].Analysis.SecurityIssues.elems[j].LineNumber]]
         \o ReportedFindings(res, i + 1)

\* the items emitted are one per finding, in order, on the finding's file
\* and line, with line 1 for a finding of line 0
OnePerFindingFromLineOne(items, findings) ==
    /\ Len(items) = Len(findings)
    /\ \A k \in 1 .. Len(items) :
          /\ items[k].file = findings[k].file
          /\ items[k].line >= 1
          /\ findings[k].line = 0 => items[k].line = 1
          /\ findings[k].line > 0 => items[k].line = findings[k].line

\* C30: every GitHub annotation and every SARIF result has a line number of
\* at least 1: a finding whose LineNumber is 0, as that of every security
\* finding and of every finding of a rule on the text, is reported at line
\* 1, and a finding with a positive line keeps its line.
C30_ReportedFromLineOne ==
    (Reported /\ config.OutputFormat \in {"github", "sarif"}) =>
        OnePerFindingFromLineOne(emitted, ReportedFindings(results, 1))

\* a SARIF report of a file with a range loop finding of line 3 and a
\* security finding of line 0: startLine 3 and startLine 1
C30_Witness ==
    /\ Reported
    /\ config.OutputFormat = "sarif"
    /\ Len(walked) = 1 /\ walked[1].path = "api/users.go"
    /\ \E k \in 1 .. Len(emitted) :
          /\ ReportedFindings(results, 1)[k].line = 3
          /\ emitted[k].line = 3
          /\ emitted[k].ruleId = "performance/N+1_Query_in_Range_Loop"
    /\ \E k \in 1 .. Len(emitted) :
          /\ ReportedFindings(results, 1)[k].line = 0
          /\ emitted[k].line = 1
          /\ emitted[k].ruleId = "security/missing_cors"

====
